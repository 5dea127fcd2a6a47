--------------------------- MODULE MCProjectStore ---------------------------
(***************************************************************************)
(* Review and security options, each model backing one of each task.       *)
(***************************************************************************)
EXTENDS ProjectStore

CONSTANTS review1, review2, review3, sec1, sec2, sec3, m1, m2, m3

MCModelOf == [o \in Option |->
    CASE o \in {review1, sec1} -> m1 [] o \in {review2, sec2} -> m2 [] OTHER -> m3]
MCTaskOf == [o \in Option |->
    IF o \in {sec1, sec2, sec3} THEN "security_analysis" ELSE "ci_review"]
MCTask == {"ci_review", "security_analysis"}

=============================================================================
