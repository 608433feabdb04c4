--------------------------- MODULE MCIngestStore ---------------------------
(* Three commands: e1 and e2 are two events of one request and one provider *)
(* call (a failure and a success), e3 is a CCR entry that shares a config.  *)
EXTENDS IngestStore, TLC

CONSTANTS e1, e2, e3, r1, r2, g1, g2, p1

MCRequestOf == e1 :> r1 @@ e2 :> r1 @@ e3 :> r2
MCConfigOf  == e1 :> g1 @@ e2 :> g2 @@ e3 :> g1
MCCallOf    == e1 :> p1 @@ e2 :> p1 @@ e3 :> None

=============================================================================
