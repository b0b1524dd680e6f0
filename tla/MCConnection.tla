---------------------------- MODULE MCConnection ----------------------------
(* Instances of Connection for TLC. *)
EXTENDS Connection

Bodies(k) == IF k \in {"none", "file", "upgrade"} THEN {0} ELSE {0, 1, 2, 4, 6, 7}

\* Requests that fit buf_, that need it to grow, and that are above MaxSize.
MCRequests ==
    UNION {{[line |-> 1, head |-> 2, body |-> b, kind |-> k, route |-> t, valid |-> v] :
                b \in Bodies(k), t \in BOOLEAN, v \in BOOLEAN} : k \in Kinds}

Uploads == {r \in MCRequests : r.kind = "multipart" /\ r.valid /\ r.route}

Plain == {r \in MCRequests : r.kind \notin {"multipart", "upgrade"} /\ r.head + r.body <= MaxSize}
=============================================================================
