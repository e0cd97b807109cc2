-------------------------------- MODULE WebFetch --------------------------------
(***************************************************************************)
(* One fetch of a page: each hop is parsed, its name resolved, every       *)
(* address of the answer judged, and the request sent to the first of      *)
(* them; a redirect begins again.  The answer of a resolver may be another *)
(* one at every lookup.                                                    *)
(*                                                                         *)
(*   url        the URL to be asked next                                   *)
(*   addresses  what the resolver answered for it                          *)
(*   peer       the address the request was sent to                        *)
(*   hops       the redirects followed                                     *)
(*   open       a response is open                                         *)
(*   left, body what the server still has to send, what has been kept      *)
(***************************************************************************)
EXTENDS Naturals, Sequences

CONSTANTS Urls,          \* TRUE: normalize_url takes it
          Addresses,     \* records: global, embeds (the addresses inside it)
          MaxAddresses, MaxRedirects, MaxBytes, MaxBody

VARIABLES url, addresses, peer, hops, asked, open, left, body, truncated, pc

vars == <<url, addresses, peer, hops, asked, open, left, body, truncated, pc>>

None == [global |-> TRUE, embeds |-> {}]

Init ==
    /\ url \in Urls /\ addresses = <<>> /\ peer = None /\ hops = 0 /\ asked = 0
    /\ open = FALSE /\ left = 0 /\ body = 0 /\ truncated = FALSE /\ pc = "begin"

(* normalize_url                                                           *)
Fine(u) == u

(* Mutant: only the address itself is judged.                              *)
MutantPublic(address) == address.global

(* address_refusal: the address, and those it embeds.                      *)
Public(address) == address.global /\ \A e \in address.embeds : e.global

Fail == pc' = "failed"

Begin ==
    /\ pc = "begin"
    /\ IF Fine(url) THEN pc' = "resolve" ELSE Fail
    /\ UNCHANGED <<url, addresses, peer, hops, asked, open, left, body, truncated>>

(* _request, in a thread of its own: system_resolver.                      *)
Resolve ==
    /\ pc = "resolve"
    /\ \/ Fail /\ UNCHANGED addresses
       \/ addresses' \in UNION {[1..n -> Addresses] : n \in 1..MaxAddresses} /\ pc' = "judge"
    /\ UNCHANGED <<url, peer, hops, asked, open, left, body, truncated>>

(* Mutant: one public address is enough.                                   *)
MutantAccepted == \E i \in DOMAIN addresses : Public(addresses[i])

(* require_public_address, for every address of the answer.                *)
Accepted == \A i \in DOMAIN addresses : Public(addresses[i])

(* Mutant: the name is given to the client, which looks it up again.       *)
MutantPin == Addresses

(* _pin: the request goes to the address that was judged.                  *)
Pin == {addresses[1]}

Request ==
    /\ pc = "judge"
    /\ \/ ~Accepted /\ Fail /\ UNCHANGED <<peer, asked, open>>
       \/ Accepted /\ peer' \in Pin /\ asked' = asked + 1
          /\ \/ open' = TRUE /\ pc' = "response"
             \/ open' = FALSE /\ Fail
    /\ UNCHANGED <<url, addresses, hops, left, body, truncated>>

(* A redirect with a place to go: the response is closed first.  The loop  *)
(* ends after max_redirects + 1 requests.                                  *)
Redirect ==
    /\ pc = "response"
    /\ open' = FALSE
    /\ url' \in Urls
    /\ IF Fine(url') THEN hops' = hops + 1 ELSE hops' = hops
    /\ IF Fine(url') /\ hops < MaxRedirects THEN pc' = "resolve" ELSE Fail
    /\ UNCHANGED <<addresses, peer, asked, left, body, truncated>>

(* _read: an error status or another media type ends it.                   *)
Answer ==
    /\ pc = "response"
    /\ \/ left' \in 0..MaxBody /\ pc' = "read" /\ UNCHANGED open
       \/ Fail /\ open' = FALSE /\ UNCHANGED left
    /\ UNCHANGED <<url, addresses, peer, hops, asked, body, truncated>>

Remaining == MaxBytes - body

(* Mutant: the chunk that fills the body is kept as one that fits in it.   *)
MutantKept(chunk) == chunk

Kept(chunk) == IF chunk >= Remaining THEN Remaining ELSE chunk

(* A chunk; the body that reaches its limit is cut, and told to be.        *)
Chunk(chunk) ==
    /\ pc = "read" /\ chunk \in 1..left
    /\ body' = body + Kept(chunk) /\ left' = left - Kept(chunk)
    /\ IF chunk >= Remaining
       THEN truncated' = TRUE /\ pc' = "done" /\ open' = FALSE
       ELSE UNCHANGED <<truncated, pc, open>>
    /\ UNCHANGED <<url, addresses, peer, hops, asked>>

(* The stream ends, or breaks.                                             *)
StreamEnds ==
    /\ pc = "read"
    /\ \/ left = 0 /\ pc' = "done"
       \/ Fail
    /\ open' = FALSE
    /\ UNCHANGED <<url, addresses, peer, hops, asked, left, body, truncated>>

Next ==
    \/ Begin \/ Resolve \/ Request \/ Redirect \/ Answer \/ StreamEnds
    \/ \E chunk \in 1..MaxBody : Chunk(chunk)

Spec == Init /\ [][Next]_vars

----------------------------------------------------------------------------
(* Every request, of every hop, goes to an address that was judged public, *)
(* whatever the resolver answers at the next lookup.                       *)
PeersArePublic == asked > 0 => peer.global /\ \A e \in peer.embeds : e.global

(* A fetch asks a bounded number of times, leaves no response open, and    *)
(* keeps a bounded body; what was left out is told.                        *)
FetchIsBounded ==
    /\ asked <= MaxRedirects + 1
    /\ pc \in {"done", "failed", "resolve", "judge"} => ~open
    /\ body <= MaxBytes
    /\ pc = "done" /\ left > 0 => truncated

FetchIsContained == PeersArePublic /\ FetchIsBounded
=============================================================================
