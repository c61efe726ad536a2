------------------------------- MODULE Semver -------------------------------
(***************************************************************************)
(* The order of versions of src/src/lib/version/semver.ts, over versions   *)
(* that parseVersion has already taken apart: [major, minor, patch, pre],  *)
(* where pre is a sequence of identifiers [num, val].  A numeric           *)
(* identifier has its number for val, any other its rank among the texts.  *)
(***************************************************************************)
EXTENDS Integers, Sequences, FiniteSetsExt

Unparsable == [major |-> -1, minor |-> 0, patch |-> 0, pre |-> <<>>]

Sign(n) == IF n < 0 THEN -1 ELSE IF n > 0 THEN 1 ELSE 0

\* Numeric identifiers rank below the others; each kind compares among its own.
CompareId(a, b) ==
    IF a.num = b.num THEN Sign(a.val - b.val) ELSE IF a.num THEN -1 ELSE 1

\* The first identifiers that differ decide, else the shorter list is lower;
\* having none at all outranks having any.
ComparePrerelease(a, b) ==
    LET differ == {i \in 1..Min({Len(a), Len(b)}) : CompareId(a[i], b[i]) # 0}
    IN  IF a = <<>> \/ b = <<>> THEN Sign(Len(b) - Len(a))
        ELSE IF differ # {} THEN CompareId(a[Min(differ)], b[Min(differ)])
        ELSE Sign(Len(a) - Len(b))

CompareVersions(a, b) ==
    LET parts == << Sign(a.major - b.major), Sign(a.minor - b.minor), Sign(a.patch - b.patch),
                    ComparePrerelease(a.pre, b.pre) >>
        decisive == {i \in 1..4 : parts[i] # 0}
    IN  IF Unparsable \in {a, b} THEN Sign(a.major - b.major)
        ELSE IF decisive = {} THEN 0 ELSE parts[Min(decisive)]

IsNewer(candidate, current) == CompareVersions(candidate, current) = 1

\* The highest release that is not marked as a prerelease; a release is
\* [version, prerelease], the oldest of equals comes first as in the list.
Stable(releases) == {r \in releases : ~r.prerelease}
LatestStable(releases) ==
    CHOOSE r \in Stable(releases) : \A s \in Stable(releases) : ~IsNewer(s.version, r.version)

=============================================================================
