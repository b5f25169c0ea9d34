------------------------------ MODULE MCRoutes ------------------------------
(***************************************************************************)
(* allocate on two families of requests: two rules that count under one    *)
(* key beside a route over a hub; and a route over a hub with maxima,      *)
(* grids and fees on both of its hops, beside a direct rule.               *)
(***************************************************************************)
EXTENDS RouteAllocation

Rule(id, from, to, src, dst) ==
  [id |-> id, from |-> from, to |-> to, src |-> src, dst |-> dst, key |-> id,
   min |-> None, increment |-> None, amounts |-> None, request |-> None, cap |-> None,
   tierMin |-> None, tierMax |-> None, fee |-> 0, percent |-> None, partial |-> TRUE,
   direct |-> FALSE, opens |-> None, closes |-> None, days |-> 0]

Request(rules, balance, used) ==
  [rules |-> rules, from |-> "s", to |-> "m", balance |-> balance, steps |-> 2,
   used |-> [key \in {e.key : e \in rules} |-> IF key \in DOMAIN used THEN used[key] ELSE 0]]

Twins ==
  {Request({[Rule("a", "s", "m", 1, 2) EXCEPT !.key = "k", !.cap = f.cap, !.tierMax = f.turn,
                                              !.increment = f.grid],
            [Rule("b", "s", "m", 1, 1) EXCEPT !.key = "k", !.cap = f.capB, !.tierMin = f.turn,
                                              !.partial = f.partial],
            [Rule("c", "s", "h", 1, 1) EXCEPT !.days = f.days],
            [Rule("d", "h", "m", 2, f.rate) EXCEPT !.key = IF f.shared THEN "k" ELSE "d",
                                                   !.cap = IF f.shared THEN f.cap ELSE None,
                                                   !.opens = 1, !.closes = 3]},
           f.balance, [k |-> f.used]) :
     f \in [cap : {None, 4, 6}, capB : {None, 4, 6}, turn : {None, 3}, grid : {None, 2},
            partial : BOOLEAN, days : {None, 1, 3}, rate : {1, 3}, shared : BOOLEAN,
            balance : {5, 9}, used : {None, 0, 2, 5}]}

Percent == {None, [num |-> 1, den |-> 4, up |-> TRUE], [num |-> 1, den |-> 4, up |-> FALSE]}

Chains ==
  {Request({[Rule("c", "s", "h", f.src, f.dst) EXCEPT !.increment = f.grid, !.percent = f.percent,
                                                      !.fee = f.fee],
            [Rule("d", "h", "m", 1, 2) EXCEPT !.min = f.min, !.amounts = f.amounts,
                                              !.request = f.request, !.cap = f.cap,
                                              !.partial = f.partial, !.fee = f.fee,
                                              !.direct = f.direct, !.tierMax = f.tier],
            Rule("e", "s", "m", 1, 1)},
           f.balance, [d |-> 1]) :
     f \in [src : {1, 2}, dst : {1, 3}, grid : {None, 2}, percent : Percent, fee : {0, 1},
            min : {None, 2}, amounts : {None, {1, 3, 4}}, request : {None, 3}, cap : {None, 5},
            partial : BOOLEAN, tier : {None, 4}, direct : BOOLEAN,
            balance : {9}]}

Families == Twins \cup Chains
=============================================================================
