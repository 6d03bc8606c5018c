---------------------------- MODULE MCSdkIngest ----------------------------
(* Instances of SdkIngest for TLC.                                         *)
EXTENDS SdkIngest

Failed == [pay |-> 1, type |-> "payment.failed", at |-> 7]

(* A directory without package.json, a fastify server and a Next.js        *)
(* project with the app router.                                            *)
Dir(n, d, app) == [node |-> n, deps |-> d, nextConfig |-> FALSE, appDir |-> app,
                   typed |-> TRUE, under |-> FALSE]
SomeProjects == {Dir(FALSE, {}, FALSE), Dir(TRUE, {"fastify"}, FALSE), Dir(TRUE, {"next"}, TRUE)}

OneFailure == {Failed}
=============================================================================
