--------------------------- MODULE MCPathRequests ---------------------------
(***************************************************************************)
(* Elements on both sides of every boundary the policies look at.          *)
(***************************************************************************)
EXTENDS PathRequests

MCElements ==
    {Hardened(44), Hardened(60), Hardened(9), Hardened(10), Hardened(0),
     Normal(0), Normal(7), Normal(1000000), Normal(1000001)}
============================================================================
