---------------------------- MODULE MCGeneration ----------------------------
(* Instances of Generation for TLC: answers that are complete, partial, or *)
(* wrong in one way.                                                       *)
EXTENDS Generation

Answer(main, page, sample) == [f \in Names |-> CASE f = "main" -> main [] f = "page" -> page [] OTHER -> sample]

MCReplies == {Answer("good", "none", "none"), Answer("none", "none", "flagged"), Answer("good", "illformed", "none"),
              Answer("good", "untyped", "none"), Answer("good", "flagged", "none")}
=============================================================================
