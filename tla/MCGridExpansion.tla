------------------------ MODULE MCGridExpansion ------------------------
(* A small instance of GridExpansion for TLC: 1e-12 is ten units, a sum of *)
(* floats is off by at most one.                                           *)
EXTENDS GridExpansion

Numbers == {-10, 0, 10}
Lists   == [kind : {"list"}, values : {<<>>, <<10>>, <<20, 10>>, <<10, 10>>}]
Scalars == [kind : {"scalar"}, value : {20}]
\* A whole number is a multiple of 1e-12; a float may be finer.
Ranges  == [kind : {"range"}, start : Numbers, stop : {0, 10, 15},
            step : {-10, 0, 10, 20}, float : {"none", "start", "step"}]
           \cup [kind : {"range"}, start : Numbers, stop : {0, 10, 15},
                 step : {1, 7}, float : {"start", "step"}]
Entries == Lists \cup Scalars \cup Ranges \cup {[kind |-> "incomplete"]}

\* Of more values than there is time for, or with steps that are rounded down.
LongRanges == [kind : {"range"}, start : {-10}, stop : {20, 30}, step : {10},
               float : {"none", "start", "step"}]
              \cup [kind : {"range"}, start : {-10}, stop : {20, 30}, step : {1, 14},
                    float : {"start", "step"}]
              \cup [kind : {"range"}, start : {-7}, stop : {20, 30}, step : {1, 10, 14},
                    float : {"start"}]

MCGrids == UNION {[1 .. n -> Entries \cup LongRanges] : n \in 0 .. 1}
             \cup {<<a, b>> : a \in Lists \cup Scalars, b \in Entries}
             \cup {<<b, a>> : a \in Lists \cup Scalars, b \in Entries}
\* base_params give a value to the first axis and to no axis.
MCBase   == 0 :> 30 @@ 1 :> 40
MCErrors == {-1, 0, 1}
=============================================================================
