-------------------------------- MODULE Lists --------------------------------
\* What several components do with their lists.
EXTENDS Naturals, Sequences

\* [x for x in list if x in keep].
Selected(list, keep) ==
  LET kept[n \in 0..Len(list)] ==
        IF n = 0 THEN << >>
        ELSE IF list[n] \in keep THEN Append(kept[n - 1], list[n]) ELSE kept[n - 1]
  IN kept[Len(list)]

\* sum(list).
Total(list) ==
  LET sum[n \in 0..Len(list)] == IF n = 0 THEN 0 ELSE sum[n - 1] + list[n]
  IN sum[Len(list)]
=============================================================================
