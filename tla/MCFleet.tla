------------------------------- MODULE MCFleet -------------------------------
EXTENDS Fleet

\* A pinned panel whose certificate changes, and one over plain http.
MCCertsAt == [u \in Urls |-> IF u \in TlsUrls THEN Certs ELSE {CHOOSE c \in Certs : TRUE}]

\* A server that no poll has reached yet.
MCFirst == {[url |-> u, mode |-> "PINNED", pin |-> None] : u \in TlsUrls}
==============================================================================
