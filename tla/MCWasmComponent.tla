-------------------------- MODULE MCWasmComponent --------------------------
(***************************************************************************)
(* Two backends of one user, two releases of a package and a local one.    *)
(* The package has two blocks and its rebuilt form one, so that what one   *)
(* backend writes into the file of another may be cut off, leave a gap or  *)
(* leave a tail; junk does not compile, p2 does not fit the host.          *)
(***************************************************************************)
EXTENDS WasmComponent, TLC

CONSTANTS b1, b2, u1, p1, p2, junk, v1, v2, file

MCBackends == {b1, b2}
MCUserOf == [b \in MCBackends |-> u1]
MCPackages == {p1, p2, junk}
MCSize == [p \in MCPackages |-> IF p = p1 THEN 2 ELSE 1]
MCComponents == {p1, p2}
MCReleases == {v1, v2, file}
MCLocal == {file}
MCOffers == [r \in MCReleases |-> IF r = v1 THEN {p1, p2} ELSE IF r = v2 THEN {p2} ELSE {p1, junk}]
MCServers == {[release |-> v1, checksum |-> p1], [release |-> v1, checksum |-> p2],
              [release |-> v2, checksum |-> p2], [release |-> v2, checksum |-> None],
              [release |-> file, checksum |-> None]}

Symmetry == Permutations(MCBackends)
=============================================================================
