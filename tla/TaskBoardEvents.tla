--------------------------- MODULE TaskBoardEvents ---------------------------
(***************************************************************************)
(* The signed nostr events the task board is made of, and the one order    *)
(* every part of the system ranks them by.                                 *)
(*                                                                         *)
(* An event is a record whose fields stand for the tags the rules read:    *)
(*   id, kind, pubkey, created_at   the signed envelope; ids are ordered   *)
(*   zero_bits, nonce   leading zero bits of the id, and the difficulty    *)
(*                      the nonce tag commits to (0: no nonce tag)         *)
(*   a           the "a" tags naming boards, in order                      *)
(*   d           the board an announcement or a properties event is about  *)
(*   issue       the issue named by a root "e", an "E", a claim's "d", or  *)
(*               a pledge or pledge verdict's address (0: none)            *)
(*   ids         the other "e" tags: deletion targets, labelled issues,    *)
(*               the superseded issue, the pledge event a verdict judged   *)
(*   keys        "p" tags, or an announcement's maintainers                *)
(*   target      the one key an attestation names, or the pledger whose    *)
(*               pledge a verdict is about                                 *)
(*   value       a label's value, or a claim's status                      *)
(*   amount      the amount a pledge promises                              *)
(*   expiration  the expiration tag (0: none)                              *)
(* Labels and follow sets are told apart by namespace and d tag in the     *)
(* code; here each is a kind of its own, and a follow set with any other   *)
(* d tag, which every reader ignores and the relay refuses, is left out.   *)
(***************************************************************************)
EXTENDS Naturals, FiniteSets, Sequences

CONSTANTS
    Pubkeys,                \* every key that signs or is named
    Boards,                 \* the configured board addresses
    Owner,                  \* Owner[b]: the key whose announcements count for b
    Events,                 \* the events that exist in an instance
    NoEvent,                \* the absent value of the code's maps
    AttestationLifetime     \* ACCOUNT_ATTESTATION_LIFETIME_SECONDS

StatusKinds == {"status_open", "status_resolved", "status_closed", "status_draft"}

LabelKinds == {"priority_label", "state_label"}

Kinds == StatusKinds \cup LabelKinds \cup
    { "announcement", "issue", "comment", "claim", "pledge", "vouch_set",
      "block_set", "account_attestation", "pledge_attestation",
      "key_properties", "nano_identity", "profile", "deletion_request" }

AccountValues == {"established", "not_established"}
PledgeValues == {"backed", "unbacked", "paid"}

\* What the proofs use of the catalogue: ids tell events apart, as hashes do.
ASSUME EventsAssumption ==
    /\ NoEvent \notin Events
    /\ \A e \in Events :
        /\ e.id \in Nat \ {0}
        /\ {e.created_at, e.expiration, e.amount} \subseteq Nat
        /\ e.pubkey \in Pubkeys
        /\ e.kind \in Kinds
        /\ e.target \in Pubkeys /\ e.keys \subseteq Pubkeys
        /\ e.d \in Boards \cup {NoEvent}
    /\ \A e, f \in Events : e.id = f.id => e = f

ASSUME BoardsAssumption ==
    /\ Owner \in [Boards -> Pubkeys]
    /\ NoEvent \notin Boards
    /\ AttestationLifetime \in Nat

-----------------------------------------------------------------------------
(* The order on events, and the slot update every map in the code is built by *)

\* Newer wins; on equal created_at the lowest id wins.
IsNewer(e, f) ==
    \/ e.created_at > f.created_at
    \/ e.created_at = f.created_at /\ e.id < f.id

\* keep_newest without its tie-break: of two events of one second the later
\* arrival wins.
KeepNewestArrivalWinsTies(current, e) ==
    IF current = NoEvent \/ e.created_at >= current.created_at THEN e ELSE current

KeepNewest(current, e) ==
    IF current = NoEvent \/ IsNewer(e, current) THEN e ELSE current

\* The declarative counterpart: e heads the set S in that order.
IsNewestIn(e, S) == e \in S /\ \A f \in S : f = e \/ IsNewer(e, f)

Newest(S) ==
    IF S = {} THEN NoEvent ELSE CHOOSE e \in S : IsNewestIn(e, S)

-----------------------------------------------------------------------------
(* Proof of work and expiry *)

Lesser(m, n) == IF m < n THEN m ELSE n

\* NIP-13 work: zero bits, capped at the difficulty the nonce commits to.
GetEventPow(e) == IF e.nonce = 0 THEN 0 ELSE Lesser(e.zero_bits, e.nonce)

\* An expiration taken at its word.
ExpirationAsAsked(e, lifetime) ==
    IF e.expiration = 0 THEN e.created_at + lifetime ELSE e.expiration

\* An expiration tag only ever shortens the lifetime counted from signing.
ExpirationOf(e, lifetime) ==
    LET max_expiration == e.created_at + lifetime
    IN  IF e.expiration = 0 THEN max_expiration
        ELSE Lesser(e.expiration, max_expiration)
=============================================================================
