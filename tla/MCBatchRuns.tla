---------------------------- MODULE MCBatchRuns ----------------------------
(* Two requests for one family, one for another, and one for a model that  *)
(* no adapter serves.                                                      *)
EXTENDS BatchRuns

TwoFamilies ==
    [r \in Requests |-> IF r \in {"r1", "r2"} THEN "anthropic"
                        ELSE IF r = "r3" THEN "openai" ELSE None]
=============================================================================
