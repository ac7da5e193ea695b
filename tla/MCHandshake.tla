------------------------------ MODULE MCHandshake ------------------------------
EXTENDS Handshake

\* A peer that is fine apart from what a defect takes away.
Fine(v) == [epmd |-> "port", dist_high |-> v, version |-> v, cookie |-> Cookie,
            flags |-> RequiredFlags, status |-> "ok", checks |-> TRUE]

\* All combinations of what epmd says and the version, the cookie and whether
\* the peer looks at the digest; the other defects one at a time.
MCPeers ==
  {[Fine(v) EXCEPT !.dist_high = d, !.cookie = k, !.checks = b] :
     v \in {5, 6}, d \in 4 .. 7, k \in {Cookie, "other"}, b \in BOOLEAN}
  \cup {[Fine(v) EXCEPT !.flags = RequiredFlags \ {f}] : v \in {5, 6}, f \in RequiredFlags}
  \cup {[Fine(v) EXCEPT !.status = s] : v \in {5, 6}, s \in {"ok_simultaneous", "nok"}}
  \cup {[Fine(6) EXCEPT !.epmd = e] : e \in {"unknown", "garbage"}}
================================================================================
