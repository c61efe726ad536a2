---------------------------- MODULE MCSelfUpdate ----------------------------
(* Two releases and a prerelease between them; the order of versions is     *)
(* checked over every pair and triple of a small set of versions.           *)
EXTENDS SelfUpdate

Id(n, v) == [num |-> n, val |-> v]
V(minor, pre) == [major |-> 1, minor |-> minor, patch |-> 0, pre |-> pre]

V10 == V(0, <<>>)
V11beta == V(1, << Id(FALSE, 1), Id(TRUE, 1) >>)
V11 == V(1, <<>>)
Listed(v, prerelease) == [version |-> v, prerelease |-> prerelease, bundle |-> TRUE, checksum |-> TRUE]
MCReleases == { Listed(V10, FALSE), Listed(V11beta, TRUE), Listed(V11, FALSE) }

\* The order of section 11 of Semantic Versioning, written as a rank: padded
\* identifiers, a release above all its prereleases, compared as one tuple.
Ids == [num : BOOLEAN, val : 0..1]
Lists == UNION {[1..n -> Ids] : n \in 0..2}
Sample == {V(m, p) : m \in 0..1, p \in Lists} \cup {Unparsable}
Weight(p, i) == IF p = <<>> THEN 9 ELSE IF i > Len(p) THEN 0
                ELSE IF p[i].num THEN 1 + p[i].val ELSE 5 + p[i].val
Rank(v) == (v.major * 2 + v.minor) * 100 + Weight(v.pre, 1) * 10 + Weight(v.pre, 2)
ASSUME SemverIsTheOrder ==
    \A a, b \in Sample : CompareVersions(a, b) = Sign(Rank(a) - Rank(b))

=============================================================================
