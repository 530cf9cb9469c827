----------------------------- MODULE MCHttpServer -----------------------------
(***************************************************************************)
(* HttpServer for TLC: three clients and a directory with names of every   *)
(* kind, one of which two entries fit.                                     *)
(***************************************************************************)
EXTENDS HttpServer

Name(s, e, u, l) == [stem |-> s, ext |-> e, upper |-> u, long |-> l]

MCDirectory == << Name("a", "html", FALSE, FALSE), Name("a", "txt", FALSE, FALSE),
                  Name("b", "jpg", TRUE, FALSE), Name("c", "", FALSE, FALSE),
                  Name("long", "html", TRUE, TRUE) >>

A    == Name("a", "txt", TRUE, FALSE)
B    == Name("b", "", FALSE, FALSE)
Long == Name("long", "html", FALSE, TRUE)
Z    == Name("z", "jpg", FALSE, FALSE)
Path == Name("path", "html", FALSE, FALSE)

CONSTANTS c1, c2, c3
Ask(x, y, z) == (c1 :> x) @@ (c2 :> y) @@ (c3 :> z)
MCRequests == {Ask(A, B, Path), Ask(A, Z, Long)}

Host(b, c, f) == [build |-> b, cased |-> c, files |-> f]
Here    == {MCDirectory[k] : k \in DOMAIN MCDirectory} \cup {NotFound}
MCHosts == {Host("folds short", FALSE, Here), Host("folds short", TRUE, Here \ {NotFound}),
            Host("folds none", TRUE, Here), Host("damages", TRUE, Here)}
=============================================================================
