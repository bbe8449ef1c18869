-------------------------- MODULE Community_proofs --------------------------
(***************************************************************************)
(* Proofs about the API's signed requests: links and registrations, block  *)
(* notes and their rebuilds, and the sync of the account labels.           *)
(***************************************************************************)
EXTENDS CommunityMessages, FiniteSetTheorems, TLAPS

(***************************************************************************)
(* Rows and handlers.                                                      *)
(***************************************************************************)
LinkRows == [account : Keys, created_at : Int, revoked_at : {None} \cup Int]

Usernames == {r.username : r \in {r \in Requests : r.kind = "register"}}
UserRows == [username : Usernames, issued_at : Int]

RowsOf(S) ==
    {Row(m, account, hidden) : m \in S, account \in Keys, hidden \in BOOLEAN}
RowOrNone(b) == {None} \cup RowsOf(NotesOn(b))

LEMMA RequestFacts ==
    /\ WINDOW \in Nat /\ MAX_CLOCK \in Nat /\ None \notin Int /\ None \notin Requests
    /\ None \notin LinkRows
    /\ \A r \in Requests :
          /\ r.issued_at \in Int
          /\ r.kind # "message" => r.key \in Keys
          /\ r.kind = "link" => r.account \in Keys
          /\ r.kind = "message" => r.message \in Sent
BY KeysAssumption DEF Requests, Sent, LinkRows

LEMMA NoteFacts ==
    /\ BlockAccount \in [Blocks -> Keys] /\ None \notin Sent
    /\ \A m \in Sent : m.key \in Keys /\ m.digest \in Int /\ m.issued_at \in Int
    /\ \A m, n \in Sent : m.digest = n.digest => m = n
    /\ \A m \in SentNotes : m \in Sent /\ m.block \in Blocks /\ m.operation = "SET_BLOCK_META"
BY NotesAssumption DEF SentNotes

LEMMA RowFacts ==
    ASSUME NEW S \in SUBSET SentNotes, NEW row \in RowsOf(S)
    PROVE  /\ row # None /\ row.hidden \in BOOLEAN
           /\ \E m \in S : m.digest = row.digest /\ m.issued_at = row.issued_at
<1>1. PICK m \in S, account \in Keys, hidden \in BOOLEAN : row = Row(m, account, hidden)
  BY DEF RowsOf
<1>2. row # None
  <2>1. Row(m, account, hidden) \in [account : Keys, note : {n.note : n \in SentNotes},
                                     digest : Int, issued_at : Int, hidden : BOOLEAN]
    BY NoteFacts DEF Row
  <2> QED BY <1>1, <2>1, NotesAssumption
<1> QED BY <1>1, <1>2 DEF Row

LEMMA MergedFields ==
    ASSUME NEW m, NEW account, NEW stored, NEW merged, merged = Merged(m, account, stored)
    PROVE  merged.digest = m.digest /\ merged.issued_at = m.issued_at
BY DEF Merged, Row

LEMMA MergedHides ==
    ASSUME NEW m, NEW account, NEW stored
    PROVE  Merged(m, account, stored).hidden = IF stored = None THEN FALSE ELSE stored.hidden
<1> DEFINE hidden == IF stored = None THEN FALSE ELSE stored.hidden
<1>1. Merged(m, account, stored) = Row(m, account, hidden)
  BY DEF Merged
<1> HIDE DEF hidden
<1>2. Merged(m, account, stored).hidden = hidden
  BY <1>1 DEF Row
<1> QED BY <1>2 DEF hidden

LEMMA MergedIsRow ==
    ASSUME NEW S, NEW m \in S, NEW account \in Keys,
           NEW stored, stored = None \/ stored \in RowsOf(SentNotes)
    PROVE  Merged(m, account, stored) \in RowsOf(S)
<1> DEFINE hidden == IF stored = None THEN FALSE ELSE stored.hidden
<1>1. hidden \in BOOLEAN
  BY RowFacts
<1> HIDE DEF hidden
<1>2. Merged(m, account, stored) = Row(m, account, hidden)
  BY Zenon DEF Merged, hidden
<1> QED BY <1>1, <1>2 DEF RowsOf

LEMMA HiddenFacts ==
    ASSUME NEW S \in SUBSET SentNotes, NEW row \in RowsOf(S), NEW hidden \in BOOLEAN
    PROVE  /\ [row EXCEPT !.hidden = hidden] \in RowsOf(S)
           /\ [row EXCEPT !.hidden = hidden].digest = row.digest
           /\ [row EXCEPT !.hidden = hidden].issued_at = row.issued_at
           /\ [row EXCEPT !.hidden = hidden].hidden = hidden
<1>1. PICK m \in S, account \in Keys, was \in BOOLEAN : row = Row(m, account, was)
  BY DEF RowsOf
<1>2. [row EXCEPT !.hidden = hidden] = Row(m, account, hidden)
  BY <1>1 DEF Row
<1>3. Row(m, account, hidden) \in RowsOf(S)
  BY DEF RowsOf
<1> QED BY <1>1, <1>2, <1>3 DEF Row

LEMMA NewerFacts ==
    ASSUME NEW x, NEW y, NEW z, x.issued_at \in Int, y.issued_at \in Int, z.issued_at \in Int,
           x.digest \in Int, y.digest \in Int, z.digest \in Int
    PROVE  /\ ~ NewerThan(x, x)
           /\ NewerThan(x, y) => ~ NewerThan(y, x)
           /\ ~ NewerThan(x, y) /\ ~ NewerThan(y, z) => ~ NewerThan(x, z)
           /\ ~ NewerThan(x, y) /\ NewerThan(z, y) => NewerThan(z, x)
           /\ x.digest = y.digest /\ x.issued_at = y.issued_at =>
                 (NewerThan(z, x) <=> NewerThan(z, y)) /\ (NewerThan(x, z) <=> NewerThan(y, z))
           /\ ~ NewerThan(x, y) /\ ~ NewerThan(y, x) => x.digest = y.digest
BY DEF NewerThan

MessageOK(h) ==
    /\ h.phase # "verified" => h.account \in Keys
    /\ h.phase \in {"stored", "compared"} => Message(h) \in messages
    /\ h.phase = "compared" =>
          /\ Message(h).operation = "SET_BLOCK_META"
          /\ h.saw \in RowOrNone(Message(h).block)
          /\ h.saw = None \/ NewerThan(Message(h), h.saw)

IsHandler(h) ==
    h = [request |-> h.request, phase |-> h.phase, account |-> h.account, saw |-> h.saw]

HandlerOK(h) ==
    /\ IsHandler(h)
    /\ h.request \in Requests \ inbox
    /\ At(h, "revoke", "checked") => account_keys[h.request.key] # None
    /\ At(h, "register", "newest") =>
          h.saw = None \/ (h.saw.issued_at \in Int /\ h.saw.issued_at < h.request.issued_at)
    /\ h.request.kind = "message" => MessageOK(h)

\* A request has one handler.
HandlersOK ==
    /\ \A h \in handlers : HandlerOK(h)
    /\ \A g, h \in handlers : g.request = h.request => g = h

\* Requests are taken up, messages are kept and keys stay linked.
Grows ==
    /\ inbox' \subseteq inbox /\ messages \subseteq messages'
    /\ \A k \in Keys : account_keys[k] # None => account_keys'[k] # None

LEMMA RowsGrow ==
    ASSUME NEW S, NEW T, S \subseteq T
    PROVE  RowsOf(S) \subseteq RowsOf(T)
BY DEF RowsOf

LEMMA HandlerKept ==
    ASSUME NEW h, HandlerOK(h), Grows PROVE HandlerOK(h)'
<1>1. MessageOK(h) => MessageOK(h)'
  <2>1. messages \subseteq messages'
    BY DEF Grows
  <2>2. \A b : RowOrNone(b) \subseteq RowOrNone(b)'
    <3>1. \A b : NotesOn(b) \subseteq NotesOn(b)'
      BY <2>1 DEF NotesOn, Notes
    <3>2. \A b : RowsOf(NotesOn(b)) \subseteq RowsOf(NotesOn(b)')
      BY <3>1, RowsGrow
    <3>3. \A b : RowsOf(NotesOn(b)') = RowsOf(NotesOn(b))'
      BY DEF RowsOf
    <3> QED BY <3>2, <3>3 DEF RowOrNone
  <2> QED BY <2>1, <2>2 DEF MessageOK, Message, NewerThan
<1>2. At(h, "revoke", "checked") => h.request.key \in Keys
  BY RequestFacts DEF HandlerOK, At
<1> QED BY <1>1, <1>2 DEF HandlerOK, Grows, At, Requests

LEMMA HandlersShrink ==
    ASSUME HandlersOK, Grows, handlers' \subseteq handlers PROVE HandlersOK'
<1>1. \A h \in handlers' : HandlerOK(h)'
  BY HandlerKept DEF HandlersOK
<1> QED BY <1>1 DEF HandlersOK

LEMMA HandlerTurns ==
    ASSUME HandlersOK, Grows, NEW h \in handlers, NEW g, g.request = h.request,
           handlers' = (handlers \ {h}) \cup {g}, HandlerOK(g)'
    PROVE  HandlersOK'
<1>1. \A x \in handlers' : HandlerOK(x)'
  BY HandlerKept DEF HandlersOK
<1>2. \A x, y \in handlers' : x.request = y.request => x = y
  BY DEF HandlersOK
<1> QED BY <1>1, <1>2 DEF HandlersOK

LEMMA MovedHandler ==
    ASSUME NEW h, HandlerOK(h), NEW phase, NEW saw, GoOn(h, phase, saw)
    PROVE  \E g : /\ IsHandler(g) /\ g.request = h.request /\ g.phase = phase
                  /\ g.account = h.account /\ g.saw = saw
                  /\ handlers' = (handlers \ {h}) \cup {g}
<1>1. PICK x : x = [h EXCEPT !.phase = phase, !.saw = saw]
  OBVIOUS
<1>2. /\ IsHandler(x) /\ x.request = h.request /\ x.phase = phase
      /\ x.account = h.account /\ x.saw = saw
  BY <1>1 DEF HandlerOK, IsHandler
<1>3. handlers' = (handlers \ {h}) \cup {x}
  BY <1>1 DEF GoOn
<1> QED BY <1>2, <1>3

(***************************************************************************)
(* Keys and registrations.                                                 *)
(***************************************************************************)
LinksOK ==
    \A k \in Keys : account_keys[k] # None =>
        /\ account_keys[k].account \in Keys \ {k}
        /\ account_keys[k].created_at \in 0 .. clock + 1
        /\ account_keys[k].revoked_at \in {None} \cup 0 .. clock

KeysOK ==
    /\ clock \in 0 .. MAX_CLOCK /\ inbox \subseteq Requests /\ messages \subseteq Sent
    /\ account_keys \in [Keys -> {None} \cup LinkRows]
    /\ users \in [Keys -> {None} \cup UserRows]
    /\ LinksOK

KeysInv == KeysOK /\ HandlersOK

LEMMA KeysInitInv == Init => KeysInv
<1> SUFFICES ASSUME Init PROVE KeysInv
  OBVIOUS
<1>1. clock \in 0 .. MAX_CLOCK /\ inbox \subseteq Requests
  BY RequestFacts DEF Init, KeysInit, Requests
<1>2. /\ account_keys \in [Keys -> {None} \cup LinkRows]
      /\ users \in [Keys -> {None} \cup UserRows] /\ LinksOK
  BY DEF Init, KeysInit, LinksOK
<1> QED BY <1>1, <1>2 DEF Init, KeysInit, NotesInit, KeysInv, KeysOK, HandlersOK

LEMMA ReceiveStep ==
    ASSUME KeysInv, NEW r \in inbox, Receive(r), UNCHANGED messages PROVE KeysInv'
<1> DEFINE g == [request |-> r, phase |-> "verified", account |-> None, saw |-> None]
<1>1. /\ inbox' = inbox \ {r} /\ handlers' = handlers \cup {g}
      /\ UNCHANGED <<clock, account_keys, users, messages>>
  BY DEF Receive
<1>2. g.request = r /\ g.phase = "verified" /\ IsHandler(g)
  BY DEF IsHandler
<1> HIDE DEF g
<1>3. HandlerOK(g)'
  BY <1>1, <1>2 DEF KeysInv, KeysOK, HandlerOK, MessageOK, At, Requests
<1>4. \A h \in handlers : HandlerOK(h)' /\ h.request # r
  BY <1>1, HandlerKept DEF KeysInv, HandlersOK, HandlerOK, Grows
<1>5. HandlersOK'
  BY <1>1, <1>2, <1>3, <1>4 DEF HandlersOK, KeysInv
<1> QED BY <1>1, <1>5 DEF KeysInv, KeysOK, LinksOK, Requests

LEMMA LinkKeyStep ==
    ASSUME KeysInv, NEW h \in handlers, LinkKey(h), UNCHANGED messages PROVE KeysInv'
<1> DEFINE key == h.request.key
           account == h.request.account
<1>1. /\ key \in Keys /\ account \in Keys /\ handlers' \subseteq handlers
      /\ UNCHANGED <<clock, inbox, users, messages>>
  BY RequestFacts DEF KeysInv, HandlersOK, HandlerOK, LinkKey, At, Finish
<1>2. CASE account_keys' = account_keys
  <2>1. HandlersOK'
    BY <1>1, <1>2, HandlersShrink DEF KeysInv, Grows
  <2> QED BY <1>1, <1>2, <2>1 DEF KeysInv, KeysOK, LinksOK, Requests
<1>3. ASSUME account_keys[key] = None, account # key, NEW created_at \in {clock, clock + 1},
             account_keys' = [account_keys EXCEPT ![key] = Link(account, created_at)]
      PROVE  KeysInv'
  <2> DEFINE link == Link(account, created_at)
  <2>1. clock \in Nat /\ clock' = clock
    BY <1>1, RequestFacts DEF KeysInv, KeysOK
  <2>2. link \in LinkRows /\ link.account = account /\ link.created_at \in 0 .. clock + 1
        /\ link.revoked_at = None
    BY <1>1, <1>3, <2>1 DEF Link, LinkRows
  <2> HIDE DEF link
  <2>3. account_keys' \in [Keys -> {None} \cup LinkRows]
    BY <1>3, <2>2 DEF KeysInv, KeysOK, link
  <2>4. account_keys'[key] = link /\ \A k \in Keys \ {key} : account_keys'[k] = account_keys[k]
    BY <1>1, <1>3 DEF KeysInv, KeysOK, link
  <2>5. LinksOK'
    <3>1. ASSUME NEW k \in Keys, account_keys'[k] # None
          PROVE  /\ account_keys'[k].account \in Keys \ {k}
                 /\ account_keys'[k].created_at \in 0 .. clock' + 1
                 /\ account_keys'[k].revoked_at \in {None} \cup 0 .. clock'
      <4>1. CASE k = key
        BY <1>1, <1>3, <2>1, <2>2, <2>4, <4>1
      <4>2. CASE k # key
        BY <2>1, <2>4, <3>1, <4>2 DEF KeysInv, KeysOK, LinksOK
      <4> QED BY <4>1, <4>2
    <3> QED BY <3>1 DEF LinksOK
  <2>6. Grows
    BY <1>1, <1>3, <2>4 DEF Grows
  <2> QED BY <1>1, <2>3, <2>5, <2>6, HandlersShrink DEF KeysInv, KeysOK, Requests
<1> QED BY <1>2, <1>3 DEF LinkKey

LEMMA RevokeWriteStep ==
    ASSUME KeysInv, NEW h \in handlers, RevokeWrite(h), UNCHANGED messages
    PROVE  /\ KeysInv'
           /\ \A k \in Keys : account_keys[k] # None =>
                 /\ account_keys'[k].account = account_keys[k].account
                 /\ account_keys'[k].created_at = account_keys[k].created_at
                 /\ account_keys[k].revoked_at # None => account_keys'[k].revoked_at # None
<1> DEFINE key == h.request.key
           row == account_keys[key]
           new == [row EXCEPT !.revoked_at = clock]
<1>1. /\ key \in Keys /\ row # None /\ handlers' \subseteq handlers
      /\ account_keys' = [account_keys EXCEPT ![key] = new]
      /\ UNCHANGED <<clock, inbox, users, messages>>
  BY RequestFacts DEF KeysInv, HandlersOK, HandlerOK, RevokeWrite, At, Finish
<1>2. clock \in Nat /\ clock # None /\ row \in LinkRows
  BY <1>1, RequestFacts DEF KeysInv, KeysOK
<1>3. /\ new \in LinkRows /\ new.account = row.account /\ new.created_at = row.created_at
      /\ new.revoked_at = clock
  BY <1>2 DEF LinkRows
<1> HIDE DEF new
<1>4. /\ account_keys' \in [Keys -> {None} \cup LinkRows] /\ account_keys'[key] = new
      /\ \A k \in Keys \ {key} : account_keys'[k] = account_keys[k]
  BY <1>1, <1>3 DEF KeysInv, KeysOK
<1>5. new # None
  BY <1>2, <1>3, RequestFacts
<1>6. LinksOK'
  <2>1. ASSUME NEW k \in Keys, account_keys'[k] # None
        PROVE  /\ account_keys'[k].account \in Keys \ {k}
               /\ account_keys'[k].created_at \in 0 .. clock' + 1
               /\ account_keys'[k].revoked_at \in {None} \cup 0 .. clock'
    <3>1. CASE k = key
      BY <1>1, <1>2, <1>3, <1>4, <3>1 DEF KeysInv, KeysOK, LinksOK
    <3>2. CASE k # key
      BY <1>1, <1>4, <2>1, <3>2 DEF KeysInv, KeysOK, LinksOK
    <3> QED BY <3>1, <3>2
  <2> QED BY <2>1 DEF LinksOK
<1>7. Grows
  BY <1>1, <1>4, <1>5 DEF Grows
<1>8. KeysInv'
  BY <1>1, <1>4, <1>6, <1>7, HandlersShrink DEF KeysInv, KeysOK, Requests
<1>9. ASSUME NEW k \in Keys, account_keys[k] # None
      PROVE  /\ account_keys'[k].account = account_keys[k].account
             /\ account_keys'[k].created_at = account_keys[k].created_at
             /\ account_keys[k].revoked_at # None => account_keys'[k].revoked_at # None
  <2>1. CASE k = key
    BY <1>2, <1>3, <1>4, <2>1
  <2>2. CASE k # key
    BY <1>4, <2>2
  <2> QED BY <2>1, <2>2
<1> QED BY <1>8, <1>9

\* The steps that leave the keys.
LEMMA KeysStay ==
    ASSUME KeysInv, HandlersOK', UNCHANGED <<inbox, account_keys>>,
           clock' \in clock .. MAX_CLOCK, messages' \subseteq Sent,
           users' \in [Keys -> {None} \cup UserRows]
    PROVE  KeysInv'
<1>1. clock \in 0 .. MAX_CLOCK /\ MAX_CLOCK \in Nat
  BY RequestFacts DEF KeysInv, KeysOK
<1>2. clock' \in 0 .. MAX_CLOCK /\ clock <= clock'
  BY <1>1
<1>3. LinksOK'
  BY <1>1, <1>2 DEF KeysInv, KeysOK, LinksOK
<1> QED BY <1>2, <1>3 DEF KeysInv, KeysOK, Requests

LEMMA RevokeReadStep ==
    ASSUME KeysInv, NEW h \in handlers, RevokeRead(h), UNCHANGED messages PROVE HandlersOK'
<1>1. /\ HandlerOK(h) /\ HandlersOK /\ At(h, "revoke", "verified")
      /\ UNCHANGED <<inbox, account_keys, messages>>
  BY DEF KeysInv, HandlersOK, RevokeRead
<1>2. Grows
  BY <1>1 DEF Grows
<1>3. CASE Finish(h)
  BY <1>1, <1>2, <1>3, HandlersShrink DEF Finish
<1>4. CASE InForce(h.request.key) /\ GoOn(h, "checked", account_keys[h.request.key])
  <2>1. PICK g : /\ IsHandler(g) /\ g.request = h.request /\ g.phase = "checked"
                 /\ handlers' = (handlers \ {h}) \cup {g}
    BY <1>1, <1>4, MovedHandler
  <2>2. HandlerOK(g)'
    BY <1>1, <1>4, <2>1 DEF HandlerOK, IsHandler, At, InForce, Requests
  <2> QED BY <1>1, <1>2, <2>1, <2>2, HandlerTurns
<1> QED BY <1>3, <1>4 DEF RevokeRead

LEMMA RegisterReadStep ==
    ASSUME KeysInv, NEW h \in handlers, RegisterCheckName(h) \/ RegisterCheckNewer(h),
           UNCHANGED messages
    PROVE  HandlersOK'
<1>1. /\ HandlerOK(h) /\ HandlersOK /\ h.request.kind = "register"
      /\ UNCHANGED <<inbox, account_keys, messages>>
  BY DEF KeysInv, HandlersOK, RegisterCheckName, RegisterCheckNewer, At
<1>2. Grows
  BY <1>1 DEF Grows
<1>3. h.request.key \in Keys /\ h.request.issued_at \in Int /\ h.request \in Requests
  BY <1>1, RequestFacts DEF HandlerOK
<1>4. CASE Finish(h)
  BY <1>1, <1>2, <1>4, HandlersShrink DEF Finish
<1>5. ASSUME NEW phase, NEW saw, GoOn(h, phase, saw), phase \in {"name_free", "newest"},
             phase = "newest" =>
                 saw = None \/ (saw.issued_at \in Int /\ saw.issued_at < h.request.issued_at)
      PROVE  HandlersOK'
  <2>1. PICK g : /\ IsHandler(g) /\ g.request = h.request /\ g.phase = phase /\ g.saw = saw
                 /\ handlers' = (handlers \ {h}) \cup {g}
    BY <1>1, <1>5, MovedHandler
  <2>2. HandlerOK(g)'
    BY <1>1, <1>5, <2>1 DEF HandlerOK, IsHandler, At, Requests
  <2> QED BY <1>1, <1>2, <2>1, <2>2, HandlerTurns
<1>6. CASE RegisterCheckName(h)
  BY <1>4, <1>5, <1>6 DEF RegisterCheckName
<1>7. CASE RegisterCheckNewer(h) /\ ~ Finish(h)
  <2> DEFINE existing == users[h.request.key]
  <2>1. ~ NewerRegistrationExists(h) /\ GoOn(h, "newest", existing)
    BY <1>7 DEF RegisterCheckNewer
  <2>2. existing \in {None} \cup UserRows
    BY <1>3 DEF KeysInv, KeysOK
  <2>3. existing = None
           \/ (existing.issued_at \in Int /\ existing.issued_at < h.request.issued_at)
    BY <1>3, <2>1, <2>2 DEF NewerRegistrationExists, UserRows
  <2> QED BY <1>5, <2>1, <2>3
<1> QED BY <1>4, <1>6, <1>7

LEMMA RegisterWriteStep ==
    ASSUME KeysInv, NEW h \in handlers, RegisterWrite(h), UNCHANGED messages
    PROVE  /\ HandlersOK' /\ users' \in [Keys -> {None} \cup UserRows]
           /\ \A k \in Keys :
                 /\ users[k] # None /\ users'[k] # users[k]
                 /\ users'[k].issued_at <= users[k].issued_at
                 => \E g \in handlers \ handlers' :
                       g.request.key = k /\ g.saw # users[k]
<1> DEFINE key == h.request.key
           row == [username |-> h.request.username, issued_at |-> h.request.issued_at]
<1>1. /\ HandlerOK(h) /\ HandlersOK /\ At(h, "register", "newest")
      /\ users' = [users EXCEPT ![key] = row] /\ handlers' = handlers \ {h}
      /\ UNCHANGED <<inbox, account_keys, messages>>
  BY DEF KeysInv, HandlersOK, RegisterWrite, Finish
<1>2. Grows
  BY <1>1 DEF Grows
<1>3. h.request \in Requests /\ h.request.kind = "register" /\ key \in Keys
      /\ h.request.issued_at \in Int
  BY <1>1, RequestFacts DEF HandlerOK, At
<1>4. row \in UserRows /\ row.issued_at = h.request.issued_at
  BY <1>3 DEF UserRows, Usernames
<1> HIDE DEF row
<1>5. users' \in [Keys -> {None} \cup UserRows] /\ users'[key] = row
      /\ \A k \in Keys \ {key} : users'[k] = users[k]
  BY <1>1, <1>3, <1>4 DEF KeysInv, KeysOK
<1>6. ASSUME NEW k \in Keys, users[k] # None, users'[k] # users[k],
             users'[k].issued_at <= users[k].issued_at
      PROVE  \E g \in handlers \ handlers' : g.request.key = k /\ g.saw # users[k]
  <2>1. k = key
    BY <1>5, <1>6
  <2>2. h.saw # users[k]
    BY <1>1, <1>3, <1>4, <1>5, <1>6, <2>1 DEF HandlerOK
  <2> QED BY <1>1, <2>1, <2>2
<1>7. HandlersOK'
  BY <1>1, <1>2, HandlersShrink
<1> QED BY <1>5, <1>6, <1>7

LEMMA KeysNextStep ==
    ASSUME KeysInv, KeysNext, UNCHANGED messages PROVE KeysInv'
<1>1. clock \in 0 .. MAX_CLOCK /\ MAX_CLOCK \in Nat /\ messages \subseteq Sent
      /\ users \in [Keys -> {None} \cup UserRows]
  BY RequestFacts DEF KeysInv, KeysOK
<1>2. CASE Tick
  <2>1. clock' \in clock .. MAX_CLOCK
    BY <1>1, <1>2 DEF Tick
  <2>2. HandlersOK'
    BY <1>2, HandlersShrink DEF Tick, Grows, KeysInv
  <2> QED BY <1>1, <1>2, <2>1, <2>2, KeysStay DEF Tick
<1>3. ASSUME NEW h \in handlers, RevokeRead(h) \/ RegisterCheckName(h) \/ RegisterCheckNewer(h)
      PROVE  KeysInv'
  <2>1. UNCHANGED <<clock, inbox, account_keys, users>>
    BY <1>3 DEF RevokeRead, RegisterCheckName, RegisterCheckNewer
  <2>2. clock' \in clock .. MAX_CLOCK
    BY <1>1, <2>1
  <2> QED BY <1>1, <1>3, <2>1, <2>2, RevokeReadStep, RegisterReadStep, KeysStay
<1>4. ASSUME NEW h \in handlers, RegisterWrite(h) PROVE KeysInv'
  <2>1. UNCHANGED <<clock, inbox, account_keys>>
    BY <1>4 DEF RegisterWrite
  <2>2. clock' \in clock .. MAX_CLOCK
    BY <1>1, <2>1
  <2> QED BY <1>1, <1>4, <2>1, <2>2, RegisterWriteStep, KeysStay
<1> QED BY <1>2, <1>3, <1>4, ReceiveStep, LinkKeyStep, RevokeWriteStep DEF KeysNext, KeysStep

(***************************************************************************)
(* Notes.                                                                  *)
(***************************************************************************)
RowsAreOfNotes ==
    /\ blocks_meta \in [Blocks -> {None} \cup RowsOf(SentNotes)]
    /\ \A b \in Blocks : blocks_meta[b] \in RowOrNone(b)

\* The handlers as a note goes on, of a message whose kind is kept.
LEMMA MessageGoesOn ==
    ASSUME KeysInv, NEW h \in handlers, h.request.kind = "message",
           NEW g, g.request = h.request, IsHandler(g),
           handlers' = (handlers \ {h}) \cup {g}, MessageOK(g)',
           UNCHANGED <<inbox, account_keys>>, messages \subseteq messages'
    PROVE  HandlersOK'
<1>1. HandlersOK /\ HandlerOK(h) /\ Grows
  BY DEF KeysInv, HandlersOK, Grows
<1>2. HandlerOK(g)'
  BY <1>1 DEF HandlerOK, IsHandler, At, Requests
<1> QED BY <1>1, <1>2, HandlerTurns

LEMMA NoteHandlers ==
    ASSUME KeysInv, RowsAreOfNotes, NEW h \in handlers, NoteStep(h) PROVE HandlersOK'
<1>1. HandlersOK /\ HandlerOK(h) /\ h.request \in Requests
      /\ (h.request.kind = "message" => MessageOK(h))
  BY DEF KeysInv, HandlersOK, HandlerOK
<1>2. h.request.kind = "message" /\ UNCHANGED <<inbox, account_keys>>
      /\ messages \subseteq messages'
  BY DEF NoteStep, ResolveAccount, RefuseNote, StoreMessage, ReadStored, UpsertNote, Invalidate,
         ApplyFails, At, noteVars
<1>3. Message(h) \in Sent
  BY <1>1, <1>2, RequestFacts DEF Message
<1>4. CASE Finish(h)
  BY <1>1, <1>2, <1>4, HandlersShrink DEF Finish, Grows
<1>5. CASE ResolveAccount(h)
  <2>1. PICK account : account = ActsFor(Message(h).key)
    OBVIOUS
  <2>2. account \in Keys
    BY <1>3, <2>1, NoteFacts DEF ActsFor, InForce, KeysInv, KeysOK, LinkRows
  <2>3. PICK g : g = [h EXCEPT !.phase = "resolved", !.account = account]
    OBVIOUS
  <2>4. /\ IsHandler(g) /\ g.request = h.request /\ g.phase = "resolved"
        /\ g.account = account
    BY <1>1, <2>3 DEF HandlerOK, IsHandler
  <2>5. handlers' = (handlers \ {h}) \cup {g}
    BY <1>5, <2>1, <2>3 DEF ResolveAccount
  <2>6. MessageOK(g)'
    BY <2>2, <2>4 DEF MessageOK
  <2> QED BY <1>2, <2>4, <2>5, <2>6, MessageGoesOn
<1>6. ASSUME NEW phase, NEW saw, GoOn(h, phase, saw), phase \in {"stored", "compared", "applied"},
             h.phase # "verified", Message(h) \in messages',
             phase = "compared" =>
                 /\ Message(h).operation = "SET_BLOCK_META"
                 /\ saw \in RowOrNone(Message(h).block)'
                 /\ saw = None \/ NewerThan(Message(h), saw)
      PROVE  HandlersOK'
  <2>1. PICK g : /\ IsHandler(g) /\ g.request = h.request /\ g.phase = phase
                 /\ g.account = h.account /\ g.saw = saw
                 /\ handlers' = (handlers \ {h}) \cup {g}
    BY <1>1, <1>6, MovedHandler
  <2>2. MessageOK(g)'
    BY <1>1, <1>2, <1>6, <2>1 DEF MessageOK, Message
  <2> QED BY <1>2, <2>1, <2>2, MessageGoesOn
<1>7. CASE StoreMessage(h)
  BY <1>4, <1>6, <1>7 DEF StoreMessage, At
<1>8. CASE ReadStored(h)
  <2> DEFINE m == Message(h)
             stored == blocks_meta[m.block]
  <2>1. /\ h.phase = "stored" /\ m.operation = "SET_BLOCK_META" /\ m \in messages
        /\ UNCHANGED messages
        /\ \/ (stored = None \/ NewerThan(m, stored)) /\ GoOn(h, "compared", stored)
           \/ GoOn(h, "applied", stored)
    BY <1>1, <1>2, <1>8 DEF ReadStored, At, MessageOK, noteVars
  <2>2. m.block \in Blocks
    BY <1>3, <2>1, NoteFacts DEF SentNotes
  <2>3. stored \in RowOrNone(m.block)'
    BY <2>1, <2>2 DEF RowsAreOfNotes, RowOrNone, NotesOn, Notes, RowsOf
  <2> QED BY <1>6, <2>1, <2>3
<1>9. CASE UpsertNote(h)
  <2>1. h.phase = "compared" /\ Message(h) \in messages /\ UNCHANGED messages
        /\ GoOn(h, "applied", None)
    BY <1>1, <1>2, <1>9 DEF UpsertNote, At, MessageOK
  <2> QED BY <1>6, <2>1
<1> QED BY <1>4, <1>5, <1>7, <1>8, <1>9 DEF NoteStep, RefuseNote, Invalidate, ApplyFails

RebuildStates ==
    [ phase : {"off", "selected", "deleted", "replaying", "writing", "restored"},
      previous : SUBSET Blocks, log : SUBSET SentNotes, todo : SUBSET SentNotes,
      mine : [Blocks -> {None} \cup RowsOf(SentNotes)], written : SUBSET Blocks,
      saw : {None} \cup RowsOf(SentNotes), rejected : SUBSET SentNotes, raced : SUBSET Blocks ]

HistoryStates ==
    [ failed : SUBSET Sent, raced : SUBSET Blocks, dropped : SUBSET Blocks,
      live : SUBSET Blocks, hid : SUBSET Blocks, rebuilds : Nat ]

\* What the transaction is about to write is newer than what it saw.
WritesNewer ==
    rebuild.phase = "writing" => \A m \in rebuild.todo : NextToReplay(m) =>
        /\ rebuild.saw \in RowOrNone(m.block)
        /\ rebuild.saw = None \/ NewerThan(m, rebuild.saw)

FreshRebuild ==
    /\ rebuild.log = {} /\ rebuild.todo = {} /\ rebuild.rejected = {}
    /\ rebuild.mine = [b \in Blocks |-> None]

RebuildOK ==
    /\ rebuild \in RebuildStates /\ history \in HistoryStates
    /\ rebuild.log \subseteq Notes /\ rebuild.todo \subseteq rebuild.log
    /\ rebuild.rejected \subseteq rebuild.log \ rebuild.todo
    /\ rebuild.phase = "off" => rebuild = NoRebuild
    /\ rebuild.phase \in {"selected", "deleted"} => FreshRebuild
    /\ rebuild.phase = "restored" => rebuild.todo = {}
    /\ \A b \in Blocks : rebuild.mine[b] \in RowOrNone(b)
    /\ WritesNewer

NotesInv == KeysInv /\ RowsAreOfNotes /\ RebuildOK

LEMMA NotesAreSent ==
    ASSUME KeysInv
    PROVE  /\ Notes \subseteq SentNotes /\ SentNotes \subseteq Sent
           /\ \A b : NotesOn(b) \subseteq SentNotes
           /\ \A b, m : m \in NotesOn(b) <=> m \in Notes /\ m.block = b
BY DEF KeysInv, KeysOK, Notes, NotesOn, SentNotes

LEMMA RowsOnNotes ==
    ASSUME KeysInv, NEW b, NEW row \in RowOrNone(b)
    PROVE  /\ row \in {None} \cup RowsOf(SentNotes)
           /\ row # None =>
                 /\ row \in RowsOf(NotesOn(b)) /\ row.hidden \in BOOLEAN
                 /\ row.digest \in Int /\ row.issued_at \in Int /\ row.digest # None
                 /\ \E m \in NotesOn(b) :
                       m.digest = row.digest /\ m.issued_at = row.issued_at
<1>1. NotesOn(b) \in SUBSET SentNotes
  BY NotesAreSent
<1>2. RowsOf(NotesOn(b)) \subseteq RowsOf(SentNotes)
  BY <1>1, RowsGrow
<1>3. row # None => row \in RowsOf(NotesOn(b))
  BY DEF RowOrNone
<1>4. row # None => row.hidden \in BOOLEAN
          /\ \E m \in NotesOn(b) : m.digest = row.digest /\ m.issued_at = row.issued_at
  BY <1>1, <1>3, RowFacts
<1>5. \A m \in NotesOn(b) : m.digest \in Int /\ m.issued_at \in Int
  BY <1>1, NoteFacts
<1> QED BY <1>2, <1>3, <1>4, <1>5, RequestFacts

\* What a transaction sees of a block is a row of a note on it.
LEMMA SeesRows ==
    ASSUME NotesInv, NEW b \in Blocks PROVE Sees(b) \in RowOrNone(b)
BY DEF NotesInv, RebuildOK, RowsAreOfNotes, Sees

LEMMA NotesInitInv == Init => NotesInv
<1> SUFFICES ASSUME Init PROVE NotesInv
  OBVIOUS
<1>1. rebuild = NoRebuild /\ rebuild.phase = "off"
  BY DEF Init, NotesInit, NoRebuild
<1>2. NoRebuild \in RebuildStates
  BY DEF NoRebuild, RebuildStates
<1>3. history \in HistoryStates
  BY DEF Init, NotesInit, HistoryStates
<1>4. RebuildOK
  BY <1>1, <1>2, <1>3 DEF RebuildOK, NoRebuild, WritesNewer, FreshRebuild, RowOrNone
<1>5. RowsAreOfNotes
  BY DEF Init, NotesInit, RowsAreOfNotes, RowOrNone
<1> QED BY <1>4, <1>5, KeysInitInv DEF NotesInv

LEMMA NotesGrow ==
    ASSUME messages \subseteq messages'
    PROVE  /\ Notes \subseteq Notes'
           /\ \A b : NotesOn(b) \subseteq NotesOn(b)'
           /\ \A b : RowOrNone(b) \subseteq RowOrNone(b)'
<1>1. \A b : NotesOn(b) \subseteq NotesOn(b)'
  BY DEF NotesOn, Notes
<1>2. \A b : RowsOf(NotesOn(b)) \subseteq RowsOf(NotesOn(b)')
  BY <1>1, RowsGrow
<1>3. \A b : RowsOf(NotesOn(b)') = RowsOf(NotesOn(b))'
  BY DEF RowsOf
<1> QED BY <1>1, <1>2, <1>3 DEF RowOrNone, Notes

\* The steps that leave the rebuild.
LEMMA RebuildStays ==
    ASSUME RebuildOK, UNCHANGED rebuild, messages \subseteq messages',
           history' \in HistoryStates
    PROVE  RebuildOK'
<1>1. WritesNewer'
  BY NotesGrow DEF RebuildOK, WritesNewer, NextToReplay, NewerThan
<1> QED BY <1>1, NotesGrow DEF RebuildOK, FreshRebuild

\* The message a handler applies.
LEMMA AppliedNote ==
    ASSUME NotesInv, NEW h \in handlers, h.request.kind = "message",
           h.phase \in {"stored", "compared"}, Message(h).operation = "SET_BLOCK_META"
    PROVE  /\ Message(h) \in Notes /\ Message(h) \in SentNotes
           /\ Message(h).block \in Blocks /\ Message(h) \in NotesOn(Message(h).block)
           /\ h.account \in Keys /\ MessageOK(h)
<1>1. MessageOK(h)
  BY DEF NotesInv, KeysInv, HandlersOK, HandlerOK
<1> QED BY <1>1, NotesAreSent, NoteFacts DEF MessageOK, NotesInv, Notes, NotesOn

\* n is being applied.
Applies(n) ==
    \E h \in handlers :
        h.request.kind = "message" /\ h.phase \in {"stored", "compared"} /\ Message(h) = n

LEMMA OthersApply ==
    ASSUME NEW h, handlers \ {h} \subseteq handlers', NEW n, Applies(n),
           ~ (h.request.kind = "message" /\ h.phase \in {"stored", "compared"} /\ Message(h) = n)
    PROVE  Applies(n)'
BY DEF Applies, Message

LEMMA StillApplies ==
    ASSUME KeysInv, NEW h \in handlers, h.request.kind = "message", NEW phase, NEW saw,
           phase \in {"stored", "compared"}, GoOn(h, phase, saw)
    PROVE  Applies(Message(h))' /\ \A n : Applies(n) => Applies(n)'
<1>1. PICK g : /\ g.request = h.request /\ g.phase = phase
               /\ handlers' = (handlers \ {h}) \cup {g}
  BY MovedHandler DEF KeysInv, HandlersOK
<1>2. PICK m : m = Message(h)
  OBVIOUS
<1>3. Applies(m)'
  BY <1>1, <1>2 DEF Applies, Message
<1>4. ASSUME NEW n, Applies(n), n # m PROVE Applies(n)'
  BY <1>1, <1>2, <1>4, OthersApply
<1>5. Message(h)' = Message(h)
  BY DEF Message
<1> QED BY <1>2, <1>3, <1>4, <1>5

\* What the upsert of m on b over row leaves.
NoteUpserted(h, m, b, row) ==
    /\ m = Message(h) /\ b \in Blocks /\ m \in NotesOn(b) /\ b \notin rebuild.written
    /\ row = blocks_meta[b]
    /\ blocks_meta' \in [Blocks -> {None} \cup RowsOf(SentNotes)]
    /\ \A c \in Blocks \ {b} : blocks_meta'[c] = blocks_meta[c]
    /\ blocks_meta'[b] \in RowsOf(NotesOn(b)) /\ blocks_meta'[b] # None
    /\ blocks_meta'[b].digest = m.digest /\ blocks_meta'[b].issued_at = m.issued_at
    /\ row = None => blocks_meta'[b].hidden = FALSE
    /\ row # None => blocks_meta'[b].hidden = row.hidden
    /\ history' \in HistoryStates
    /\ Content(row) = Content(h.saw) => history'.raced = history.raced
    /\ Content(row) # Content(h.saw) => history'.raced = history.raced \cup {b}
    /\ history'.live = history.live \cup {b}
    /\ history'.failed = history.failed /\ history'.dropped = history.dropped
    /\ history'.hid = history.hid
    /\ h.saw \in RowOrNone(b) /\ (h.saw = None \/ NewerThan(m, h.saw))
    /\ UNCHANGED <<messages, rebuild>>
    /\ \A n : Applies(n) => Applies(n)' \/ n = m

LEMMA UpsertEffect ==
    ASSUME NotesInv, NEW h \in handlers, UpsertNote(h)
    PROVE  \E m, b, row : NoteUpserted(h, m, b, row)
<1>1. PICK m : m = Message(h)
  OBVIOUS
<1>2. PICK b : b = m.block
  OBVIOUS
<1>3. PICK row : row = blocks_meta[b]
  OBVIOUS
<1>4. PICK raced : raced = IF Content(row) = Content(h.saw) THEN history.raced
                           ELSE history.raced \cup {b}
  OBVIOUS
<1>5. PICK merged : merged = Merged(m, h.account, row)
  OBVIOUS
<1>6. /\ h.request.kind = "message" /\ h.phase = "compared" /\ b \notin rebuild.written
      /\ blocks_meta' = [blocks_meta EXCEPT ![b] = merged]
      /\ history' = [history EXCEPT !.raced = raced, !.live = @ \cup {b}]
      /\ UNCHANGED <<messages, rebuild>> /\ GoOn(h, "applied", None)
  BY <1>1, <1>2, <1>3, <1>4, <1>5 DEF UpsertNote, At, Locked
<1>7. /\ h.account \in Keys /\ m.operation = "SET_BLOCK_META"
      /\ h.saw \in RowOrNone(b) /\ (h.saw = None \/ NewerThan(m, h.saw))
  BY <1>1, <1>2, <1>6 DEF NotesInv, KeysInv, HandlersOK, HandlerOK, MessageOK
<1>8. b \in Blocks /\ m \in NotesOn(b) /\ NotesOn(b) \subseteq SentNotes
  BY <1>1, <1>2, <1>6, <1>7, AppliedNote, NotesAreSent DEF NotesInv
<1>9. row = None \/ row \in RowsOf(SentNotes)
  BY <1>3, <1>8 DEF NotesInv, RowsAreOfNotes
<1>10. merged \in RowsOf(NotesOn(b))
  <2>1. PICK S : S = NotesOn(b)
    OBVIOUS
  <2>2. m \in S
    BY <1>8, <2>1
  <2>3. Merged(m, h.account, row) \in RowsOf(S)
    BY <1>7, <1>9, <2>2, MergedIsRow
  <2> QED BY <1>5, <2>1, <2>3
<1>11. /\ merged.digest = m.digest /\ merged.issued_at = m.issued_at
  BY <1>5, MergedFields
<1>12. ASSUME row = None PROVE merged.hidden = FALSE
  <2>1. Merged(m, h.account, row).hidden = IF row = None THEN FALSE ELSE row.hidden
    BY MergedHides
  <2> QED BY <1>5, <1>12, <2>1
<1>13. ASSUME row # None PROVE merged.hidden = row.hidden
  <2>1. Merged(m, h.account, row).hidden = IF row = None THEN FALSE ELSE row.hidden
    BY MergedHides
  <2> QED BY <1>5, <1>13, <2>1, Zenon
<1>14. merged \in RowsOf(SentNotes) /\ merged # None
  <2>1. merged \in RowsOf(SentNotes)
    BY <1>8, <1>10, RowsGrow
  <2> QED BY <2>1, RowFacts
<1>15. /\ blocks_meta' \in [Blocks -> {None} \cup RowsOf(SentNotes)]
       /\ blocks_meta'[b] = merged
       /\ \A c \in Blocks \ {b} : blocks_meta'[c] = blocks_meta[c]
  BY <1>6, <1>8, <1>14 DEF NotesInv, RowsAreOfNotes
<1>16. raced \in SUBSET Blocks
  BY <1>4, <1>8 DEF NotesInv, RebuildOK, HistoryStates
<1>17. /\ history' \in HistoryStates /\ history'.raced = raced
       /\ history'.live = history.live \cup {b}
       /\ history'.failed = history.failed /\ history'.dropped = history.dropped
       /\ history'.hid = history.hid
  BY <1>6, <1>8, <1>16 DEF NotesInv, RebuildOK, HistoryStates
<1>18. ASSUME NEW n, Applies(n), n # m PROVE Applies(n)'
  <2>1. handlers \ {h} \subseteq handlers'
    BY <1>6 DEF GoOn
  <2> QED BY <1>1, <1>18, <2>1, OthersApply
<1>19. /\ row = None => blocks_meta'[b].hidden = FALSE
       /\ row # None => blocks_meta'[b].hidden = row.hidden
  BY <1>12, <1>13, <1>15
<1>20. /\ Content(row) = Content(h.saw) => history'.raced = history.raced
       /\ Content(row) # Content(h.saw) => history'.raced = history.raced \cup {b}
  BY <1>4, <1>17
<1>21. NoteUpserted(h, m, b, row)
  BY <1>1, <1>3, <1>6, <1>7, <1>8, <1>10, <1>11, <1>14, <1>15, <1>17, <1>18, <1>19, <1>20
     DEF NoteUpserted
<1> QED BY <1>21

(***************************************************************************)
(* What the other steps leave of the notes.                                *)
(***************************************************************************)
NotNewer(n, row) == row # None /\ ~ NewerThan(n, row)

\* Nothing the notes' invariants speak of is disturbed.
Quiet ==
    /\ UNCHANGED <<messages, blocks_meta, rebuild, history>>
    /\ \A n \in Notes : Applies(n) => Applies(n)'

NoteStored(m) ==
    /\ m \in Sent /\ messages' = messages \cup {m} /\ (m \in messages \/ Applies(m)')
    /\ UNCHANGED <<blocks_meta, rebuild, history>>
    /\ \A n : Applies(n) => Applies(n)'

\* A note that is not newer is done with.
NotePassedOver(m) ==
    /\ m \in Notes /\ m.block \in Blocks /\ NotNewer(m, blocks_meta[m.block])
    /\ UNCHANGED <<messages, blocks_meta, rebuild, history>>
    /\ \A n : Applies(n) => Applies(n)' \/ n = m

NoteFailed(m) ==
    /\ m \in Notes
    /\ UNCHANGED <<messages, blocks_meta, rebuild>>
    /\ history' \in HistoryStates /\ history'.failed = history.failed \cup {m}
    /\ history'.raced = history.raced /\ history'.dropped = history.dropped
    /\ history'.live = history.live /\ history'.hid = history.hid
    /\ \A n : Applies(n) => Applies(n)' \/ n = m

LEMMA StoreEffect ==
    ASSUME NotesInv, NEW h \in handlers, StoreMessage(h)
    PROVE  \E m : NoteStored(m)
<1>1. PICK m : m = Message(h)
  OBVIOUS
<1>2. /\ h.request.kind = "message" /\ h.phase = "resolved" /\ messages' = messages \cup {m}
      /\ UNCHANGED <<blocks_meta, rebuild, history>>
      /\ \/ m \in messages /\ Finish(h)
         \/ GoOn(h, "stored", None)
  BY <1>1 DEF StoreMessage, At
<1>3. m \in Sent
  BY <1>1, <1>2, RequestFacts DEF NotesInv, KeysInv, HandlersOK, HandlerOK, Message
<1>4. CASE m \in messages /\ Finish(h)
  <2>1. \A n : Applies(n) => Applies(n)'
    BY <1>2, <1>4, OthersApply DEF Finish
  <2> QED BY <1>2, <1>3, <1>4, <2>1 DEF NoteStored
<1>5. CASE GoOn(h, "stored", None)
  <2>1. PICK p : p = "stored"
    OBVIOUS
  <2>2. Applies(Message(h))' /\ \A n : Applies(n) => Applies(n)'
    BY <1>2, <1>5, <2>1, StillApplies DEF NotesInv
  <2>3. Applies(m)'
    <3>1. Message(h)' = Message(h)
      BY DEF Message
    <3> QED BY <1>1, <2>2, <3>1
  <2> QED BY <1>2, <1>3, <2>2, <2>3 DEF NoteStored
<1> QED BY <1>2, <1>4, <1>5

LEMMA ReadEffect ==
    ASSUME NotesInv, NEW h \in handlers, ReadStored(h)
    PROVE  Quiet \/ \E m : NotePassedOver(m)
<1>1. PICK m : m = Message(h)
  OBVIOUS
<1>2. /\ h.request.kind = "message" /\ h.phase = "stored" /\ m.operation = "SET_BLOCK_META"
      /\ UNCHANGED <<messages, blocks_meta, rebuild, history>>
      /\ \/ GoOn(h, "compared", blocks_meta[m.block])
         \/ NotNewer(m, blocks_meta[m.block]) /\ GoOn(h, "applied", blocks_meta[m.block])
  BY <1>1 DEF ReadStored, At, noteVars, NotNewer
<1>3. m \in Notes /\ m.block \in Blocks
  BY <1>1, <1>2, AppliedNote
<1>4. CASE GoOn(h, "compared", blocks_meta[m.block])
  <2>1. \A n : Applies(n) => Applies(n)'
    BY <1>2, <1>4, StillApplies DEF NotesInv
  <2> QED BY <1>2, <2>1 DEF Quiet
<1>5. CASE NotNewer(m, blocks_meta[m.block]) /\ GoOn(h, "applied", blocks_meta[m.block])
  <2>1. handlers \ {h} \subseteq handlers'
    BY <1>5 DEF GoOn
  <2>2. \A n : Applies(n) => Applies(n)' \/ n = m
    BY <1>1, <2>1, OthersApply
  <2> QED BY <1>2, <1>3, <1>5, <2>2 DEF NotePassedOver
<1> QED BY <1>2, <1>4, <1>5

LEMMA FailEffect ==
    ASSUME NotesInv, NEW h \in handlers, ApplyFails(h)
    PROVE  \E m : NoteFailed(m)
<1>1. PICK m : m = Message(h)
  OBVIOUS
<1>2. /\ h.request.kind = "message" /\ h.phase \in {"stored", "compared"}
      /\ m.operation = "SET_BLOCK_META" /\ handlers' = handlers \ {h}
      /\ UNCHANGED <<messages, blocks_meta, rebuild>>
      /\ history' = [history EXCEPT !.failed = @ \cup {m}]
  BY <1>1 DEF ApplyFails, At, Finish
<1>3. m \in Notes /\ m \in Sent
  BY <1>1, <1>2, AppliedNote, NotesAreSent DEF NotesInv
<1>4. /\ history' \in HistoryStates /\ history'.failed = history.failed \cup {m}
      /\ history'.raced = history.raced /\ history'.dropped = history.dropped
      /\ history'.live = history.live /\ history'.hid = history.hid
  BY <1>2, <1>3 DEF NotesInv, RebuildOK, HistoryStates
<1>5. \A n : Applies(n) => Applies(n)' \/ n = m
  BY <1>1, <1>2, OthersApply
<1> QED BY <1>2, <1>3, <1>4, <1>5 DEF NoteFailed

LEMMA OtherNoteSteps ==
    ASSUME NotesInv, NEW h \in handlers,
           ResolveAccount(h) \/ RefuseNote(h) \/ Invalidate(h)
    PROVE  Quiet
<1>1. /\ h.phase \notin {"stored", "compared"} /\ handlers \ {h} \subseteq handlers'
      /\ UNCHANGED <<messages, blocks_meta, rebuild, history>>
  BY DEF ResolveAccount, RefuseNote, Invalidate, At, Finish, noteVars
<1>2. \A n : Applies(n) => Applies(n)'
  BY <1>1, OthersApply
<1> QED BY <1>1, <1>2 DEF Quiet

LEMMA KeySteps ==
    ASSUME NotesInv, KeysNext, UNCHANGED noteVars
    PROVE  Quiet
<1>1. UNCHANGED <<messages, blocks_meta, rebuild, history>>
  BY DEF noteVars
<1>2. \A n : Applies(n) => Applies(n)'
  <2>1. CASE handlers \subseteq handlers'
    BY <2>1 DEF Applies, Message
  <2>2. ASSUME NEW h \in handlers, KeysStep(h) PROVE \A n : Applies(n) => Applies(n)'
    <3>1. h.request.kind # "message" /\ handlers \ {h} \subseteq handlers'
      BY <2>2 DEF KeysStep, LinkKey, RevokeRead, RevokeWrite, RegisterCheckName,
                  RegisterCheckNewer, RegisterWrite, At, Finish, GoOn
    <3> QED BY <3>1, OthersApply
  <2> QED BY <2>1, <2>2 DEF KeysNext, Tick, Receive
<1> QED BY <1>1, <1>2 DEF Quiet

(***************************************************************************)
(* Calls of materialize_account_labels.                                    *)
(***************************************************************************)
IsJob(j) ==
    j = [by |-> j.by, account |-> j.account, now |-> j.now, phase |-> j.phase,
         claims |-> j.claims, alias |-> j.alias, tags |-> j.tags, saw |-> j.saw,
         had |-> j.had]

Waits(h) ==
    /\ h.request.kind = "message" /\ h.phase = "materializing"
    /\ Message(h).operation = "SET_ACCOUNT_META"

\* Each caller has one call in progress: the script, or a handler that waits.
JobsInv ==
    /\ \A j \in jobs : IsJob(j) /\ (j.by # None => \E h \in handlers : Waits(h) /\ h.request = j.by)
    /\ \A i, j \in jobs : i.by = j.by => i = j

LEMMA JobMoves ==
    ASSUME NEW j \in jobs, JobStep(j), JobsInv
    PROVE  \/ /\ UNCHANGED handlers
              /\ \E k : /\ IsJob(k) /\ k.by = j.by /\ k.account = j.account
                     /\ jobs' = (jobs \ {j}) \cup {k}
           \/ /\ jobs' = jobs \ {j}
              /\ \/ j.by = None /\ UNCHANGED handlers
                 \/ j.by # None /\ handlers' = {h \in handlers : h.request # j.by}
<1>1. IsJob(j)
  BY DEF JobsInv
<1>2. ASSUME NEW k, Replace(j, k), IsJob(k), k.by = j.by, k.account = j.account,
             UNCHANGED handlers
      PROVE  /\ UNCHANGED handlers
             /\ \E x : /\ IsJob(x) /\ x.by = j.by /\ x.account = j.account
                      /\ jobs' = (jobs \ {j}) \cup {x}
  BY <1>2 DEF Replace
<1>3. CASE ReadStoredClaims(j)
  <2>1. PICK claims : claims = StoredClaims(j.account)
    OBVIOUS
  <2>2. PICK k : k = [j EXCEPT !.phase = "stored", !.claims = claims]
    OBVIOUS
  <2>3. IsJob(k) /\ k.by = j.by /\ k.account = j.account
    BY <1>1, <2>2 DEF IsJob
  <2> QED BY <1>2, <1>3, <2>1, <2>2, <2>3 DEF ReadStoredClaims
<1>5. CASE ReadAlias(j)
  <2>1. PICK saw, phase :
          Replace(j, [j EXCEPT !.saw = saw, !.phase = phase]) /\ UNCHANGED handlers
    BY <1>5 DEF ReadAlias
  <2>2. PICK k : k = [j EXCEPT !.saw = saw, !.phase = phase]
    OBVIOUS
  <2>3. IsJob(k) /\ k.by = j.by /\ k.account = j.account
    BY <1>1, <2>2 DEF IsJob
  <2> QED BY <1>2, <2>1, <2>2, <2>3
<1>6. ASSUME NEW phase, Replace(j, [j EXCEPT !.phase = phase]), UNCHANGED handlers
      PROVE  \E k : /\ IsJob(k) /\ k.by = j.by /\ k.account = j.account
                     /\ jobs' = (jobs \ {j}) \cup {k}
  <2>1. PICK k : k = [j EXCEPT !.phase = phase]
    OBVIOUS
  <2>2. IsJob(k) /\ k.by = j.by /\ k.account = j.account
    BY <1>1, <2>1 DEF IsJob
  <2> QED BY <1>2, <1>6, <2>1, <2>2
<1>7. CASE WriteAlias(j)
  <2>1. PICK phase : Replace(j, [j EXCEPT !.phase = phase]) /\ UNCHANGED handlers
    BY <1>7 DEF WriteAlias
  <2> QED BY <1>6, <2>1
<1>8. CASE ReadTags(j)
  <2>1. PICK had : had = accounts_tags[j.account]
    OBVIOUS
  <2>2. PICK k : k = [j EXCEPT !.phase = "tags_read", !.saw = None, !.had = had]
    OBVIOUS
  <2>3. IsJob(k) /\ k.by = j.by /\ k.account = j.account
    BY <1>1, <2>2 DEF IsJob
  <2> QED BY <1>2, <1>8, <2>1, <2>2, <2>3 DEF ReadTags
<1>9. CASE LogChange(j) \/ RemoveTags(j)
  BY <1>6, <1>9 DEF LogChange, RemoveTags
<1>10. CASE AddTags(j) \/ InsertConflict(j)
  BY <1>10 DEF AddTags, InsertConflict, Return, Throw
<1>4. CASE ReadSignedClaims(j)
  <2>1. PICK claims, alias, tags : /\ UNCHANGED handlers
          /\ Replace(j, [j EXCEPT !.phase = "resolved", !.claims = claims, !.alias = alias,
                                  !.tags = tags])
    BY <1>4 DEF ReadSignedClaims
  <2>2. PICK k : k = [j EXCEPT !.phase = "resolved", !.claims = claims, !.alias = alias,
                               !.tags = tags]
    OBVIOUS
  <2>3. IsJob(k) /\ k.by = j.by /\ k.account = j.account
    BY <1>1, <2>2 DEF IsJob
  <2> QED BY <1>2, <2>1, <2>2, <2>3
<1> QED BY <1>3, <1>4, <1>5, <1>7, <1>8, <1>9, <1>10 DEF JobStep

LEMMA JobGoes ==
    ASSUME JobsInv, NEW j \in jobs, jobs' = jobs \ {j},
           \/ j.by = None /\ UNCHANGED handlers
           \/ j.by # None /\ handlers' = {h \in handlers : h.request # j.by}
    PROVE  JobsInv'
BY DEF JobsInv, Waits, Message, IsJob

LEMMA JobGoesOn ==
    ASSUME JobsInv, NEW j \in jobs, UNCHANGED handlers, NEW k, IsJob(k), k.by = j.by,
           jobs' = (jobs \ {j}) \cup {k}
    PROVE  JobsInv'
<1>1. IsJob(k)'
  BY DEF IsJob
<1> QED BY <1>1 DEF JobsInv, Waits, Message, IsJob

LEMMA JobsFewer ==
    ASSUME JobsInv, jobs' \subseteq jobs, \A h \in handlers : Waits(h) => h \in handlers'
    PROVE  JobsInv'
BY DEF JobsInv, Waits, Message, IsJob

LEMMA JobCalled ==
    ASSUME NEW by, NEW account, NEW now
    PROVE  IsJob(Job(by, account, now)) /\ Job(by, account, now).by = by
BY DEF IsJob, Job

LEMMA ApplyMetaStep ==
    ASSUME KeysInv, JobsInv, NEW h \in handlers, ApplyMeta(h)
    PROVE  JobsInv' /\ (UNCHANGED <<clock, inbox, account_keys, users, messages>> => HandlersOK')
<1>1. HandlersOK /\ HandlerOK(h)
  BY DEF KeysInv, HandlersOK
<1>2. /\ h.request.kind = "message" /\ h.phase = "stored"
      /\ Message(h).operation = "SET_ACCOUNT_META"
      /\ GoOn(h, "materializing", None) /\ h.request \in Requests
      /\ jobs' = jobs \cup {Job(h.request, h.account, clock)}
  BY <1>1 DEF ApplyMeta, At, HandlerOK
<1>3. PICK g : /\ IsHandler(g) /\ g.request = h.request /\ g.phase = "materializing"
               /\ g.account = h.account /\ handlers' = (handlers \ {h}) \cup {g}
  BY <1>1, <1>2, MovedHandler
<1>4. PICK j : j = Job(h.request, h.account, clock)
  OBVIOUS
<1>5. IsJob(j) /\ j.by = h.request /\ jobs' = jobs \cup {j} /\ j.by # None
  BY <1>2, <1>4, JobCalled, RequestFacts
<1>6. \A x \in handlers : Waits(x) => x # h /\ x.request # h.request
  BY <1>1, <1>2 DEF Waits, HandlersOK
<1>7. \A i \in jobs : i.by # h.request
  BY <1>5, <1>6 DEF JobsInv
<1>8. Waits(g)'
  BY <1>2, <1>3 DEF Waits, Message
<1>9. JobsInv'
  <2>1. \A x : Waits(x) => Waits(x)'
    BY DEF Waits, Message
  <2>2. \A i \in jobs' : IsJob(i)'
    BY <1>5 DEF JobsInv, IsJob
  <2>3. \A i \in jobs' : i.by # None => \E x \in handlers' : Waits(x)' /\ x.request = i.by
    BY <1>3, <1>5, <1>6, <1>8, <2>1 DEF JobsInv
  <2>4. \A i, k \in jobs' : i.by = k.by => i = k
    BY <1>5, <1>7 DEF JobsInv
  <2> QED BY <2>2, <2>3, <2>4 DEF JobsInv
<1>10. ASSUME UNCHANGED <<clock, inbox, account_keys, users, messages>> PROVE HandlersOK'
  <2>1. h.account \in Keys
    BY <1>1, <1>2 DEF HandlerOK, MessageOK
  <2>2. MessageOK(g)'
    BY <1>3, <2>1 DEF MessageOK
  <2> QED BY <1>2, <1>3, <1>10, <2>2, MessageGoesOn
<1> QED BY <1>9, <1>10

\* A step of the labels takes away the handler of a call that ends, or none.
LEMMA LabelHandlers ==
    ASSUME JobsInv, LabelsNext
    PROVE  \/ UNCHANGED handlers
           \/ \E j \in jobs : j.by # None /\ handlers' = {h \in handlers : h.request # j.by}
           \/ \E h \in handlers : ApplyMeta(h)
BY JobMoves DEF LabelsNext, LabelStep, LabelTrouble, SyncStart, SyncStep, SyncFetch, SyncUpsert,
   SyncSweep, SyncMaterialize, SyncSourceDone, SyncSourceFails, SyncDies, Relist, JobFails, Throw

LEMMA LabelKeys ==
    ASSUME KeysInv, JobsInv, LabelsNext
    PROVE  KeysInv'
<1>1. UNCHANGED <<clock, inbox, account_keys, users, messages>>
  BY DEF LabelsNext, noteVars
<1>2. Grows
  BY <1>1 DEF Grows
<1>3. CASE handlers' \subseteq handlers
  <2>1. HandlersOK'
    BY <1>2, <1>3, HandlersShrink DEF KeysInv
  <2> QED BY <1>1, <2>1 DEF KeysInv, KeysOK, LinksOK, Requests
<1>4. ASSUME NEW h \in handlers, ApplyMeta(h) PROVE KeysInv'
  <2>1. HandlersOK'
    BY <1>1, <1>4, ApplyMetaStep
  <2> QED BY <1>1, <2>1 DEF KeysInv, KeysOK, LinksOK, Requests
<1> QED BY <1>3, <1>4, LabelHandlers

LEMMA LabelsAreQuiet ==
    ASSUME NotesInv, JobsInv, LabelsNext
    PROVE  Quiet
<1>1. UNCHANGED <<messages, blocks_meta, rebuild, history>>
  BY DEF LabelsNext, noteVars
<1>2. HandlersOK
  BY DEF NotesInv, KeysInv
<1>3. ASSUME NEW n \in Notes, Applies(n) PROVE Applies(n)'
  <2>1. PICK h \in handlers : /\ h.request.kind = "message" /\ h.phase \in {"stored", "compared"}
                              /\ Message(h) = n
    BY <1>3 DEF Applies
  <2>2. Message(h).operation = "SET_BLOCK_META"
    BY <1>3, <2>1 DEF Notes
  <2>3. \A x \in handlers : Waits(x) => x.request # h.request
    BY <1>2, <2>1 DEF Waits, HandlersOK
  <2>4. \A x \in handlers : ApplyMeta(x) => x # h
    BY <2>2 DEF ApplyMeta
  <2>5. h \in handlers'
    BY <2>3, <2>4, LabelHandlers DEF JobsInv, ApplyMeta, GoOn
  <2> QED BY <2>1, <2>5 DEF Applies, Message
<1> QED BY <1>1, <1>3 DEF Quiet

LEMMA LabelJobs ==
    ASSUME KeysInv, JobsInv, LabelsNext
    PROVE  JobsInv'
<1>1. ASSUME NEW j \in jobs, JobStep(j) PROVE JobsInv'
  BY <1>1, JobMoves, JobGoes, JobGoesOn
<1>2. ASSUME NEW j \in jobs, JobFails(j) PROVE JobsInv'
  BY <1>2, JobGoes DEF JobFails, Throw
<1>3. ASSUME NEW account, SyncMaterialize(account) PROVE JobsInv'
  <2>1. PICK j : j = Job(None, account, sync.now)
    OBVIOUS
  <2>2. IsJob(j) /\ j.by = None
    BY <2>1, JobCalled
  <2>3. /\ jobs' = jobs \cup {j} /\ UNCHANGED handlers /\ \A i \in jobs : i.by # None
    BY <1>3, <2>1 DEF SyncMaterialize, SyncJob
  <2> QED BY <2>2, <2>3 DEF JobsInv, Waits, Message, IsJob
<1>4. CASE jobs' \subseteq jobs /\ UNCHANGED handlers
  BY <1>4, JobsFewer
<1> QED BY <1>1, <1>2, <1>3, <1>4, ApplyMetaStep
     DEF LabelsNext, LabelStep, LabelTrouble, SyncStart, SyncStep, SyncFetch, SyncUpsert,
         SyncSweep, SyncSourceDone, SyncSourceFails, SyncDies, Relist

\* A handler that waits for its call is moved by nothing else.
LEMMA OtherJobs ==
    ASSUME JobsInv, UNCHANGED labelVars, KeysNext \/ NotesNext
    PROVE  JobsInv'
<1>1. \A h \in handlers : Waits(h) => h \in handlers'
  BY DEF Waits, KeysNext, Tick, Receive, KeysStep, LinkKey, RevokeRead, RevokeWrite,
     RegisterCheckName, RegisterCheckNewer, RegisterWrite, NotesNext, NoteStep, ResolveAccount,
     RefuseNote, StoreMessage, ReadStored, UpsertNote, Invalidate, ApplyFails, RebuildStep,
     RebuildStart, RebuildDelete, RebuildReadLog, ReplayRead, ReplayWrite, RebuildRestore,
     RebuildCommit, RebuildRollback, HideStep, HideNote, PageStep, PageSelect, PageRespond,
     CacheExpire, At, Finish, GoOn, keyVars
<1> QED BY <1>1, JobsFewer DEF labelVars

(***************************************************************************)
(* Hiding and rebuilding.                                                  *)
(***************************************************************************)
NoteHidden(b, hidden) ==
    /\ b \in Blocks /\ hidden \in BOOLEAN /\ b \notin rebuild.written
    /\ blocks_meta[b] # None /\ blocks_meta'[b] # None
    /\ blocks_meta' \in [Blocks -> {None} \cup RowsOf(SentNotes)]
    /\ \A c \in Blocks \ {b} : blocks_meta'[c] = blocks_meta[c]
    /\ blocks_meta'[b] \in RowOrNone(b)
    /\ blocks_meta'[b].digest = blocks_meta[b].digest
    /\ blocks_meta'[b].issued_at = blocks_meta[b].issued_at
    /\ blocks_meta'[b].hidden = hidden
    /\ history' \in HistoryStates
    /\ rebuild.phase = "selected" => history'.hid = history.hid \cup {b}
    /\ rebuild.phase # "selected" => history'.hid = history.hid
    /\ history'.failed = history.failed /\ history'.raced = history.raced
    /\ history'.dropped = history.dropped /\ history'.live = history.live
    /\ UNCHANGED <<keyVars, messages, rebuild>>

LEMMA HideEffect ==
    ASSUME NotesInv, NEW b \in Blocks, NEW hidden \in BOOLEAN, HideNote(b, hidden)
    PROVE  NoteHidden(b, hidden)
<1>1. PICK row : row = blocks_meta[b]
  OBVIOUS
<1>2. PICK new : new = [row EXCEPT !.hidden = hidden]
  OBVIOUS
<1>3. PICK hid : hid = IF rebuild.phase = "selected" THEN history.hid \cup {b} ELSE history.hid
  OBVIOUS
<1>4. /\ row # None /\ b \notin rebuild.written
      /\ blocks_meta' = [blocks_meta EXCEPT ![b] = new]
      /\ history' = [history EXCEPT !.hid = hid]
      /\ UNCHANGED <<keyVars, messages, rebuild>>
  BY <1>1, <1>2, <1>3 DEF HideNote, Locked
<1>5. row \in RowsOf(NotesOn(b)) /\ NotesOn(b) \in SUBSET SentNotes
  BY <1>1, <1>4, NotesAreSent, RowsOnNotes DEF NotesInv, RowsAreOfNotes
<1>6. /\ new \in RowsOf(NotesOn(b)) /\ new.digest = row.digest
      /\ new.issued_at = row.issued_at /\ new.hidden = hidden
  BY <1>2, <1>5, HiddenFacts
<1>7. new # None /\ new \in RowsOf(SentNotes)
  BY <1>5, <1>6, RowFacts, RowsGrow
<1>8. /\ blocks_meta' \in [Blocks -> {None} \cup RowsOf(SentNotes)]
      /\ blocks_meta'[b] = new
      /\ \A c \in Blocks \ {b} : blocks_meta'[c] = blocks_meta[c]
  BY <1>4, <1>7 DEF NotesInv, RowsAreOfNotes
<1>9. hid \in SUBSET Blocks
  BY <1>3 DEF NotesInv, RebuildOK, HistoryStates
<1>10. /\ history' \in HistoryStates /\ history'.hid = hid
       /\ history'.failed = history.failed /\ history'.raced = history.raced
       /\ history'.dropped = history.dropped /\ history'.live = history.live
  BY <1>4, <1>9 DEF NotesInv, RebuildOK, HistoryStates
<1>11. new \in RowOrNone(b)
  BY <1>6 DEF RowOrNone
<1> QED BY <1>1, <1>3, <1>4, <1>6, <1>7, <1>8, <1>10, <1>11 DEF NoteHidden

StartEffect ==
    /\ rebuild.phase = "off" /\ rebuild' \in RebuildStates /\ rebuild'.phase = "selected"
    /\ rebuild'.previous = {b \in Blocks : blocks_meta[b] # None /\ blocks_meta[b].hidden}
    /\ rebuild'.log = {} /\ rebuild'.todo = {} /\ rebuild'.rejected = {}
    /\ rebuild'.written = {} /\ rebuild'.mine = [b \in Blocks |-> None]
    /\ history' \in HistoryStates /\ history'.hid = {}
    /\ history'.failed = history.failed /\ history'.raced = history.raced
    /\ history'.dropped = history.dropped
    /\ UNCHANGED <<keyVars, messages, blocks_meta>>

DeleteEffect ==
    /\ rebuild.phase = "selected" /\ rebuild' \in RebuildStates /\ rebuild'.phase = "deleted"
    /\ rebuild'.written = {b \in Blocks : blocks_meta[b] # None}
    /\ rebuild'.previous = rebuild.previous /\ rebuild'.mine = rebuild.mine
    /\ rebuild'.log = rebuild.log /\ rebuild'.todo = rebuild.todo
    /\ rebuild'.rejected = rebuild.rejected
    /\ history' \in HistoryStates /\ history'.live = {} /\ history'.hid = history.hid
    /\ history'.failed = history.failed /\ history'.raced = history.raced
    /\ history'.dropped = history.dropped
    /\ UNCHANGED <<keyVars, messages, blocks_meta>>

ReadLogEffect ==
    /\ rebuild.phase = "deleted" /\ rebuild' \in RebuildStates /\ rebuild'.phase = "replaying"
    /\ rebuild'.log = Notes /\ rebuild'.todo = Notes /\ rebuild'.rejected = rebuild.rejected
    /\ rebuild'.previous = rebuild.previous /\ rebuild'.mine = rebuild.mine
    /\ rebuild'.written = rebuild.written
    /\ UNCHANGED <<keyVars, messages, blocks_meta, history>>

LEMMA StartSteps ==
    ASSUME NotesInv
    PROVE  (RebuildStart => StartEffect) /\ (RebuildDelete => DeleteEffect)
           /\ (RebuildReadLog => ReadLogEffect)
<1>1. /\ rebuild \in RebuildStates /\ history \in HistoryStates
      /\ NoRebuild \in RebuildStates /\ Notes \subseteq SentNotes
  BY NotesAreSent DEF NotesInv, RebuildOK, NoRebuild, RebuildStates
<1>2. ASSUME RebuildStart PROVE StartEffect
  <2>1. PICK previous : previous = {b \in Blocks : blocks_meta[b] # None /\ blocks_meta[b].hidden}
    OBVIOUS
  <2>7. PICK rebuilds : rebuilds = history.rebuilds + 1
    OBVIOUS
  <2>8. rebuilds \in Nat
    BY <1>1, <2>7 DEF HistoryStates
  <2>2. /\ rebuild' = [NoRebuild EXCEPT !.phase = "selected", !.previous = previous]
        /\ history' = [history EXCEPT !.rebuilds = rebuilds, !.hid = {}]
    BY <1>2, <2>1, <2>7 DEF RebuildStart
  <2>3. previous \in SUBSET Blocks
    BY <2>1
  <2>4. /\ history' \in HistoryStates /\ history'.hid = {}
        /\ history'.failed = history.failed /\ history'.raced = history.raced
        /\ history'.dropped = history.dropped
    BY <1>1, <2>2, <2>8 DEF HistoryStates
  <2>5. rebuild' \in RebuildStates
    BY <1>1, <2>2, <2>3 DEF RebuildStates
  <2>6. /\ rebuild'.phase = "selected" /\ rebuild'.previous = previous
        /\ rebuild'.log = {} /\ rebuild'.todo = {} /\ rebuild'.rejected = {}
        /\ rebuild'.written = {} /\ rebuild'.mine = [b \in Blocks |-> None]
    BY <2>2 DEF NoRebuild
  <2> QED BY <1>2, <2>1, <2>4, <2>5, <2>6 DEF StartEffect, RebuildStart
<1>3. ASSUME RebuildDelete PROVE DeleteEffect
  <2>1. PICK written : written = {b \in Blocks : blocks_meta[b] # None}
    OBVIOUS
  <2>2. /\ rebuild' = [rebuild EXCEPT !.phase = "deleted", !.written = written]
        /\ history' = [history EXCEPT !.live = {}]
    BY <1>3, <2>1 DEF RebuildDelete
  <2>3. written \in SUBSET Blocks
    BY <2>1
  <2>4. /\ history' \in HistoryStates /\ history'.live = {} /\ history'.hid = history.hid
        /\ history'.failed = history.failed /\ history'.raced = history.raced
        /\ history'.dropped = history.dropped
    BY <1>1, <2>2 DEF HistoryStates
  <2>5. /\ rebuild' \in RebuildStates /\ rebuild'.phase = "deleted"
        /\ rebuild'.written = written
        /\ rebuild'.previous = rebuild.previous /\ rebuild'.mine = rebuild.mine
        /\ rebuild'.log = rebuild.log /\ rebuild'.todo = rebuild.todo
        /\ rebuild'.rejected = rebuild.rejected
    BY <1>1, <2>2, <2>3 DEF RebuildStates
  <2> QED BY <1>3, <2>1, <2>4, <2>5 DEF DeleteEffect, RebuildDelete
<1>4. ASSUME RebuildReadLog PROVE ReadLogEffect
  <2>1. PICK log : log = Notes
    OBVIOUS
  <2>2. rebuild' = [rebuild EXCEPT !.phase = "replaying", !.log = log, !.todo = log]
    BY <1>4, <2>1 DEF RebuildReadLog
  <2>3. /\ rebuild' \in RebuildStates /\ rebuild'.phase = "replaying"
        /\ rebuild'.log = log /\ rebuild'.todo = log /\ rebuild'.rejected = rebuild.rejected
        /\ rebuild'.previous = rebuild.previous /\ rebuild'.mine = rebuild.mine
        /\ rebuild'.written = rebuild.written
    BY <1>1, <2>1, <2>2 DEF RebuildStates
  <2> QED BY <1>4, <2>1, <2>3 DEF ReadLogEffect, RebuildReadLog
<1> QED BY <1>2, <1>3, <1>4

\* The note next to replay is done with: refused, or not newer.
RejectEffect(m) ==
    /\ rebuild.phase = "replaying" /\ NextToReplay(m) /\ rebuild' \in RebuildStates
    /\ rebuild'.todo = rebuild.todo \ {m}
    /\ rebuild'.rejected = rebuild.rejected \cup {m}
    /\ rebuild'.raced = rebuild.raced /\ rebuild'.phase = rebuild.phase
    /\ rebuild'.previous = rebuild.previous /\ rebuild'.log = rebuild.log
    /\ rebuild'.mine = rebuild.mine /\ rebuild'.written = rebuild.written
    /\ UNCHANGED <<keyVars, messages, blocks_meta, history>>

SkipEffect(m) ==
    /\ rebuild.phase = "replaying" /\ NextToReplay(m) /\ rebuild' \in RebuildStates
    /\ NotNewer(m, Sees(m.block))
    /\ rebuild'.todo = rebuild.todo \ {m}
    /\ rebuild'.rejected = rebuild.rejected
    /\ rebuild'.raced = rebuild.raced /\ rebuild'.phase = rebuild.phase
    /\ rebuild'.previous = rebuild.previous /\ rebuild'.log = rebuild.log
    /\ rebuild'.mine = rebuild.mine /\ rebuild'.written = rebuild.written
    /\ UNCHANGED <<keyVars, messages, blocks_meta, history>>

CompareEffect(m) ==
    /\ rebuild.phase = "replaying" /\ NextToReplay(m) /\ rebuild' \in RebuildStates
    /\ rebuild'.saw = Sees(m.block)
    /\ Sees(m.block) = None \/ NewerThan(m, Sees(m.block))
    /\ rebuild'.phase = "writing" /\ rebuild'.todo = rebuild.todo
    /\ rebuild'.rejected = rebuild.rejected /\ rebuild'.raced = rebuild.raced
    /\ rebuild'.previous = rebuild.previous /\ rebuild'.log = rebuild.log
    /\ rebuild'.mine = rebuild.mine /\ rebuild'.written = rebuild.written
    /\ UNCHANGED <<keyVars, messages, blocks_meta, history>>

\* The transaction makes m the note on b, over row.
WriteEffect(m, b, row) ==
    /\ rebuild.phase = "writing" /\ NextToReplay(m) /\ rebuild' \in RebuildStates
    /\ b = m.block /\ b \in Blocks /\ m \in NotesOn(b) /\ row = Sees(b)
    /\ rebuild'.phase = "replaying" /\ rebuild'.todo = rebuild.todo \ {m}
    /\ rebuild'.rejected = rebuild.rejected
    /\ rebuild'.previous = rebuild.previous /\ rebuild'.log = rebuild.log
    /\ rebuild'.written = rebuild.written \cup {b}
    /\ Content(row) = Content(rebuild.saw) => rebuild'.raced = rebuild.raced
    /\ Content(row) # Content(rebuild.saw) => rebuild'.raced = rebuild.raced \cup {b}
    /\ rebuild'.mine[b] \in RowOrNone(b) /\ rebuild'.mine[b] # None
    /\ rebuild'.mine[b].digest = m.digest /\ rebuild'.mine[b].issued_at = m.issued_at
    /\ row = None => rebuild'.mine[b].hidden = FALSE
    /\ row # None => rebuild'.mine[b].hidden = row.hidden
    /\ \A c \in Blocks \ {b} : rebuild'.mine[c] = rebuild.mine[c]
    /\ UNCHANGED <<keyVars, messages, blocks_meta, history>>

LEMMA ReplayReadStep ==
    ASSUME NotesInv, NEW m \in rebuild.todo, ReplayRead(m)
    PROVE  RejectEffect(m) \/ SkipEffect(m) \/ CompareEffect(m)
<1>1. /\ rebuild \in RebuildStates /\ m \in Notes /\ m \in SentNotes /\ m.block \in Blocks
      /\ UNCHANGED <<keyVars, messages, blocks_meta, history>>
      /\ rebuild.phase = "replaying" /\ NextToReplay(m)
  BY NotesAreSent, NoteFacts DEF NotesInv, RebuildOK, ReplayRead
<1>2. PICK stored : stored = Sees(m.block)
  OBVIOUS
<1>3. stored \in {None} \cup RowsOf(SentNotes)
  BY <1>1, <1>2, SeesRows, RowsOnNotes DEF NotesInv
<1>4. PICK todo, rejected : todo = rebuild.todo \ {m} /\ rejected = rebuild.rejected \cup {m}
  OBVIOUS
<1>5. todo \in SUBSET SentNotes /\ rejected \in SUBSET SentNotes
  BY <1>1, <1>4 DEF RebuildStates
<1>6. CASE rebuild' = [rebuild EXCEPT !.todo = todo, !.rejected = rejected]
  <2>1. rebuild' \in RebuildStates
    BY <1>1, <1>5, <1>6 DEF RebuildStates
  <2>2. /\ rebuild'.todo = todo /\ rebuild'.rejected = rejected
        /\ rebuild'.raced = rebuild.raced /\ rebuild'.phase = rebuild.phase
        /\ rebuild'.previous = rebuild.previous /\ rebuild'.log = rebuild.log
        /\ rebuild'.mine = rebuild.mine /\ rebuild'.written = rebuild.written
    BY <1>1, <1>6 DEF RebuildStates
  <2> QED BY <1>1, <1>4, <2>1, <2>2 DEF RejectEffect
<1>7. CASE /\ rebuild' = [rebuild EXCEPT !.phase = "writing", !.saw = stored]
           /\ stored = None \/ NewerThan(m, stored)
  <2>1. rebuild' \in RebuildStates
    BY <1>1, <1>3, <1>7 DEF RebuildStates
  <2>2. /\ rebuild'.phase = "writing" /\ rebuild'.saw = stored
        /\ rebuild'.todo = rebuild.todo /\ rebuild'.rejected = rebuild.rejected
        /\ rebuild'.raced = rebuild.raced
        /\ rebuild'.previous = rebuild.previous /\ rebuild'.log = rebuild.log
        /\ rebuild'.mine = rebuild.mine /\ rebuild'.written = rebuild.written
    BY <1>1, <1>7 DEF RebuildStates
  <2> QED BY <1>1, <1>2, <1>7, <2>1, <2>2 DEF CompareEffect
<1>8. CASE rebuild' = [rebuild EXCEPT !.todo = todo] /\ NotNewer(m, stored)
  <2>1. rebuild' \in RebuildStates
    BY <1>1, <1>5, <1>8 DEF RebuildStates
  <2>2. /\ rebuild'.todo = todo /\ rebuild'.rejected = rebuild.rejected
        /\ rebuild'.raced = rebuild.raced /\ rebuild'.phase = rebuild.phase
        /\ rebuild'.previous = rebuild.previous /\ rebuild'.log = rebuild.log
        /\ rebuild'.mine = rebuild.mine /\ rebuild'.written = rebuild.written
    BY <1>1, <1>8 DEF RebuildStates
  <2> QED BY <1>1, <1>2, <1>4, <1>8, <2>1, <2>2 DEF SkipEffect
<1> QED BY <1>2, <1>4, <1>6, <1>7, <1>8 DEF ReplayRead, NotNewer

LEMMA ReplayWriteStep ==
    ASSUME NotesInv, NEW m \in rebuild.todo, ReplayWrite(m)
    PROVE  \E b, row : WriteEffect(m, b, row)
<1>1. PICK b : b = m.block
  OBVIOUS
<1>2. PICK row : row = Sees(b)
  OBVIOUS
<1>3. /\ rebuild \in RebuildStates /\ m \in Notes /\ m \in SentNotes /\ b \in Blocks
      /\ m \in NotesOn(b) /\ NotesOn(b) \subseteq SentNotes /\ BlockAccount[b] \in Keys
      /\ UNCHANGED <<keyVars, messages, blocks_meta, history>>
      /\ rebuild.phase = "writing" /\ NextToReplay(m)
  BY <1>1, NotesAreSent, NoteFacts DEF NotesInv, RebuildOK, ReplayWrite
<1>4. PICK merged : merged = Merged(m, BlockAccount[b], row)
  OBVIOUS
<1>5. PICK raced, written, todo :
        /\ raced = IF Content(row) = Content(rebuild.saw) THEN rebuild.raced
                   ELSE rebuild.raced \cup {b}
        /\ written = rebuild.written \cup {b} /\ todo = rebuild.todo \ {m}
  OBVIOUS
<1>6. rebuild' = [rebuild EXCEPT !.phase = "replaying", !.todo = todo, !.mine[b] = merged,
                                 !.written = written, !.raced = raced, !.saw = None]
  BY <1>1, <1>2, <1>4, <1>5 DEF ReplayWrite
<1>7. row = None \/ row \in RowsOf(SentNotes)
  BY <1>2, <1>3, SeesRows, RowsOnNotes DEF NotesInv
<1>8. merged \in RowsOf(NotesOn(b))
  <2>1. PICK S : S = NotesOn(b)
    OBVIOUS
  <2>2. m \in S
    BY <1>3, <2>1
  <2>3. Merged(m, BlockAccount[b], row) \in RowsOf(S)
    BY <1>3, <1>7, <2>2, MergedIsRow
  <2> QED BY <1>4, <2>1, <2>3
<1>9. merged.digest = m.digest /\ merged.issued_at = m.issued_at
  BY <1>4, MergedFields
<1>10. ASSUME row = None PROVE merged.hidden = FALSE
  <2>1. Merged(m, BlockAccount[b], row).hidden = IF row = None THEN FALSE ELSE row.hidden
    BY MergedHides
  <2> QED BY <1>4, <1>10, <2>1
<1>11. ASSUME row # None PROVE merged.hidden = row.hidden
  <2>1. Merged(m, BlockAccount[b], row).hidden = IF row = None THEN FALSE ELSE row.hidden
    BY MergedHides
  <2> QED BY <1>4, <1>11, <2>1, Zenon
<1>12. merged \in RowsOf(SentNotes) /\ merged # None
  <2>1. merged \in RowsOf(SentNotes)
    BY <1>3, <1>8, RowsGrow
  <2> QED BY <2>1, RowFacts
<1>13. PICK mine : mine = [rebuild.mine EXCEPT ![b] = merged]
  OBVIOUS
<1>14. /\ mine \in [Blocks -> {None} \cup RowsOf(SentNotes)] /\ mine[b] = merged
       /\ \A c \in Blocks \ {b} : mine[c] = rebuild.mine[c]
  BY <1>3, <1>12, <1>13 DEF RebuildStates
<1>15. rebuild' = [rebuild EXCEPT !.phase = "replaying", !.todo = todo, !.mine = mine,
                                  !.written = written, !.raced = raced, !.saw = None]
  BY <1>6, <1>13
<1>16. raced \in SUBSET Blocks /\ written \in SUBSET Blocks /\ todo \in SUBSET SentNotes
  BY <1>3, <1>5 DEF RebuildStates
<1>17. rebuild' \in RebuildStates
  BY <1>3, <1>14, <1>15, <1>16 DEF RebuildStates
<1>18. /\ rebuild'.phase = "replaying" /\ rebuild'.todo = todo /\ rebuild'.mine = mine
       /\ rebuild'.written = written /\ rebuild'.raced = raced
       /\ rebuild'.rejected = rebuild.rejected
       /\ rebuild'.previous = rebuild.previous /\ rebuild'.log = rebuild.log
  BY <1>3, <1>15 DEF RebuildStates
<1>19. merged \in RowOrNone(b)
  BY <1>8 DEF RowOrNone
<1>20. /\ Content(row) = Content(rebuild.saw) => raced = rebuild.raced
       /\ Content(row) # Content(rebuild.saw) => raced = rebuild.raced \cup {b}
  BY <1>5
<1>21. WriteEffect(m, b, row)
  BY <1>1, <1>2, <1>3, <1>5, <1>9, <1>10, <1>11, <1>12, <1>14, <1>17, <1>18, <1>19, <1>20
     DEF WriteEffect
<1> QED BY <1>21

RestoreEffect ==
    /\ rebuild.phase = "replaying" /\ rebuild.todo = {} /\ rebuild' \in RebuildStates
    /\ rebuild'.phase = "restored" /\ rebuild'.todo = {}
    /\ rebuild'.rejected = rebuild.rejected /\ rebuild'.raced = rebuild.raced
    /\ rebuild'.previous = rebuild.previous /\ rebuild'.log = rebuild.log
    /\ rebuild'.written =
          rebuild.written \cup {b \in rebuild.previous : Sees(b) # None}
    /\ \A b \in Blocks : b \notin rebuild.previous \/ Sees(b) = None =>
          rebuild'.mine[b] = rebuild.mine[b]
    /\ \A b \in rebuild.previous : Sees(b) # None =>
          /\ rebuild'.mine[b] # None /\ rebuild'.mine[b] \in RowOrNone(b)
          /\ rebuild'.mine[b].digest = Sees(b).digest
          /\ rebuild'.mine[b].issued_at = Sees(b).issued_at
          /\ rebuild'.mine[b].hidden = TRUE
    /\ UNCHANGED <<keyVars, messages, blocks_meta, history>>

LEMMA RestoreStep ==
    ASSUME NotesInv, RebuildRestore PROVE RestoreEffect
<1>1. PICK restored : restored = {b \in rebuild.previous : Sees(b) # None}
  OBVIOUS
<1>2. PICK mine : mine = [b \in Blocks |->
        IF b \in restored THEN [Sees(b) EXCEPT !.hidden = TRUE] ELSE rebuild.mine[b]]
  OBVIOUS
<1>3. PICK written : written = rebuild.written \cup restored
  OBVIOUS
<1>4. /\ rebuild \in RebuildStates /\ rebuild.phase = "replaying" /\ rebuild.todo = {}
      /\ rebuild' = [rebuild EXCEPT !.phase = "restored", !.mine = mine, !.written = written]
      /\ UNCHANGED <<keyVars, messages, blocks_meta, history>>
  BY <1>1, <1>2, <1>3 DEF RebuildRestore, NotesInv, RebuildOK
<1>5. restored \subseteq Blocks
  BY <1>1, <1>4 DEF RebuildStates
<1>6. ASSUME NEW b \in restored
      PROVE  /\ mine[b] # None /\ mine[b] \in RowOrNone(b)
             /\ mine[b] \in RowsOf(SentNotes)
             /\ mine[b].digest = Sees(b).digest
             /\ mine[b].issued_at = Sees(b).issued_at
             /\ mine[b].hidden = TRUE
  <2>1. PICK row : row = Sees(b)
    OBVIOUS
  <2>2. row \in RowsOf(NotesOn(b)) /\ NotesOn(b) \in SUBSET SentNotes
    BY <1>1, <1>5, <2>1, SeesRows, RowsOnNotes, NotesAreSent DEF NotesInv
  <2>3. PICK new : new = [row EXCEPT !.hidden = TRUE]
    OBVIOUS
  <2>4. /\ new \in RowsOf(NotesOn(b)) /\ new.digest = row.digest
        /\ new.issued_at = row.issued_at /\ new.hidden = TRUE
    BY <2>2, <2>3, HiddenFacts
  <2>5. new # None /\ new \in RowsOf(SentNotes)
    BY <2>2, <2>4, RowFacts, RowsGrow
  <2>6. mine[b] = new
    BY <1>2, <1>5, <2>1, <2>3
  <2> QED BY <2>1, <2>4, <2>5, <2>6 DEF RowOrNone
<1>7. \A b \in Blocks \ restored : mine[b] = rebuild.mine[b]
  BY <1>2
<1>8. mine \in [Blocks -> {None} \cup RowsOf(SentNotes)]
  <2>1. \A b \in Blocks : mine[b] \in {None} \cup RowsOf(SentNotes)
    BY <1>4, <1>6, <1>7 DEF RebuildStates
  <2>2. mine = [b \in Blocks |-> mine[b]]
    BY <1>2
  <2> QED BY <2>1, <2>2
<1>9. written \in SUBSET Blocks
  BY <1>3, <1>4, <1>5 DEF RebuildStates
<1>10. rebuild' \in RebuildStates
  BY <1>4, <1>8, <1>9 DEF RebuildStates
<1>11. /\ rebuild'.phase = "restored" /\ rebuild'.todo = {}
       /\ rebuild'.rejected = rebuild.rejected /\ rebuild'.raced = rebuild.raced
       /\ rebuild'.previous = rebuild.previous /\ rebuild'.log = rebuild.log
       /\ rebuild'.mine = mine /\ rebuild'.written = written
  BY <1>4 DEF RebuildStates
<1>12. \A b \in Blocks : b \notin rebuild.previous \/ Sees(b) = None =>
          rebuild'.mine[b] = rebuild.mine[b]
  BY <1>1, <1>7, <1>11
<1>13. \A b \in rebuild.previous : Sees(b) # None =>
          /\ rebuild'.mine[b] # None /\ rebuild'.mine[b] \in RowOrNone(b)
          /\ rebuild'.mine[b].digest = Sees(b).digest
          /\ rebuild'.mine[b].issued_at = Sees(b).issued_at
          /\ rebuild'.mine[b].hidden = TRUE
  BY <1>1, <1>6, <1>11
<1>14. rebuild'.written = rebuild.written \cup {b \in rebuild.previous : Sees(b) # None}
  BY <1>1, <1>3, <1>11
<1> QED BY <1>4, <1>10, <1>11, <1>12, <1>13, <1>14 DEF RestoreEffect

CommitEffect ==
    /\ rebuild.phase = "restored" /\ rebuild' = NoRebuild
    /\ blocks_meta' \in [Blocks -> {None} \cup RowsOf(SentNotes)]
    /\ \A b \in Blocks : blocks_meta'[b] = Sees(b)
    /\ history' \in HistoryStates /\ history'.failed = history.failed \ rebuild.log
    /\ history'.raced = rebuild.raced \cup (history.raced \cap history.live)
    /\ history'.dropped = {m.block : m \in rebuild.rejected}
    /\ UNCHANGED <<keyVars, messages>>

LEMMA CommitStep ==
    ASSUME NotesInv, RebuildCommit PROVE CommitEffect
<1>1. PICK failed, raced, dropped :
        /\ failed = history.failed \ rebuild.log
        /\ raced = rebuild.raced \cup (history.raced \cap history.live)
        /\ dropped = {m.block : m \in rebuild.rejected}
  OBVIOUS
<1>2. /\ rebuild \in RebuildStates /\ history \in HistoryStates
      /\ rebuild.phase = "restored" /\ rebuild' = NoRebuild
      /\ blocks_meta' = [b \in Blocks |-> Sees(b)]
      /\ history' = [history EXCEPT !.failed = failed, !.raced = raced, !.dropped = dropped]
      /\ UNCHANGED <<keyVars, messages>>
  BY <1>1 DEF RebuildCommit, NotesInv, RebuildOK
<1>3. dropped \in SUBSET Blocks
  BY <1>1, <1>2, NoteFacts DEF RebuildStates
<1>4. failed \in SUBSET Sent /\ raced \in SUBSET Blocks
  BY <1>1, <1>2 DEF RebuildStates, HistoryStates
<1>5. /\ history' \in HistoryStates /\ history'.failed = failed
      /\ history'.raced = raced /\ history'.dropped = dropped
  BY <1>2, <1>3, <1>4 DEF HistoryStates
<1>6. /\ blocks_meta' \in [Blocks -> {None} \cup RowsOf(SentNotes)]
      /\ \A b \in Blocks : blocks_meta'[b] = Sees(b)
  <2>1. \A b \in Blocks : Sees(b) \in {None} \cup RowsOf(SentNotes)
    BY SeesRows, RowsOnNotes DEF NotesInv
  <2> QED BY <1>2, <2>1
<1> QED BY <1>1, <1>2, <1>5, <1>6 DEF CommitEffect

(***************************************************************************)
(* What holds of notes, rows and rebuilds whatever the properties.         *)
(***************************************************************************)
LEMMA SameNotes ==
    ASSUME UNCHANGED messages
    PROVE  /\ Notes' = Notes /\ \A b : NotesOn(b)' = NotesOn(b)
           /\ \A b : RowOrNone(b)' = RowOrNone(b)
<1>1. Notes' = Notes /\ \A b : NotesOn(b)' = NotesOn(b)
  BY DEF NotesOn, Notes
<1>2. \A b : RowsOf(NotesOn(b))' = RowsOf(NotesOn(b))
  BY <1>1 DEF RowsOf
<1> QED BY <1>1, <1>2 DEF RowOrNone

LEMMA OneIsNext ==
    ASSUME NotesInv, NEW m \in rebuild.todo, NEW n \in rebuild.todo,
           NextToReplay(m), NextToReplay(n)
    PROVE  m = n
<1>1. m \in Sent /\ n \in Sent
  BY NotesAreSent DEF NotesInv, RebuildOK, RebuildStates
<1>2. m # n => NewerThan(m, n) /\ NewerThan(n, m)
  BY DEF NextToReplay
<1> QED BY <1>1, <1>2, NoteFacts, NewerFacts

LEMMA KeysUntouched ==
    ASSUME KeysInv, UNCHANGED <<keyVars, messages>> PROVE KeysInv'
<1>1. HandlersOK'
  BY HandlersShrink DEF KeysInv, Grows, keyVars
<1>2. clock' \in clock .. MAX_CLOCK
  BY RequestFacts DEF KeysInv, KeysOK, keyVars
<1> QED BY <1>1, <1>2, KeysStay DEF KeysInv, KeysOK, keyVars

LEMMA RowsUntouched ==
    ASSUME RowsAreOfNotes, UNCHANGED blocks_meta, messages \subseteq messages'
    PROVE  RowsAreOfNotes'
BY NotesGrow DEF RowsAreOfNotes

LEMMA NoteStepInv ==
    ASSUME NotesInv, NEW h \in handlers, NoteStep(h), HandlersOK' PROVE NotesInv'
<1>1. UNCHANGED <<clock, inbox, account_keys, users>>
  BY DEF NoteStep, ResolveAccount, RefuseNote, StoreMessage, ReadStored, UpsertNote, Invalidate,
         ApplyFails
<1>2. messages' \subseteq Sent => KeysInv'
  <2>1. clock' \in clock .. MAX_CLOCK
    BY <1>1, RequestFacts DEF NotesInv, KeysInv, KeysOK
  <2> QED BY <1>1, <2>1, KeysStay DEF NotesInv, KeysInv, KeysOK
<1>3. messages \subseteq Sent
  BY DEF NotesInv, KeysInv, KeysOK
<1>4. CASE UNCHANGED <<messages, blocks_meta, rebuild, history>>
  <2>1. RebuildOK'
    BY <1>4, RebuildStays DEF NotesInv, RebuildOK
  <2> QED BY <1>2, <1>3, <1>4, <2>1, RowsUntouched DEF NotesInv
<1>5. ASSUME NEW m, NoteStored(m) PROVE NotesInv'
  <2>1. messages \subseteq messages' /\ messages' \subseteq Sent
    BY <1>3, <1>5 DEF NoteStored
  <2>2. RebuildOK'
    BY <1>5, <2>1, RebuildStays DEF NoteStored, NotesInv, RebuildOK
  <2> QED BY <1>2, <1>5, <2>1, <2>2, RowsUntouched DEF NotesInv, NoteStored
<1>6. ASSUME NEW m, NEW b, NEW row, NoteUpserted(h, m, b, row) PROVE NotesInv'
  <2>1. RebuildOK'
    BY <1>6, RebuildStays DEF NoteUpserted, NotesInv
  <2>2. \A c : RowOrNone(c)' = RowOrNone(c)
    BY <1>6, SameNotes DEF NoteUpserted
  <2>3. RowsAreOfNotes'
    <3>1. blocks_meta'[b] \in RowOrNone(b)
      BY <1>6 DEF NoteUpserted, RowOrNone
    <3>2. \A c \in Blocks \ {b} : blocks_meta'[c] \in RowOrNone(c)
      BY <1>6 DEF NoteUpserted, NotesInv, RowsAreOfNotes
    <3>3. blocks_meta' \in [Blocks -> {None} \cup RowsOf(SentNotes)]
      BY <1>6 DEF NoteUpserted
    <3>4. RowsOf(SentNotes)' = RowsOf(SentNotes)
      BY DEF RowsOf
    <3> QED BY <2>2, <3>1, <3>2, <3>3, <3>4 DEF RowsAreOfNotes
  <2> QED BY <1>2, <1>3, <1>6, <2>1, <2>3 DEF NotesInv, NoteUpserted
<1>7. ASSUME NEW m, NoteFailed(m) PROVE NotesInv'
  <2>1. RebuildOK'
    BY <1>7, RebuildStays DEF NoteFailed, NotesInv
  <2> QED BY <1>2, <1>3, <1>7, <2>1, RowsUntouched DEF NotesInv, NoteFailed
<1> QED BY <1>4, <1>5, <1>6, <1>7, StoreEffect, ReadEffect, UpsertEffect, FailEffect,
           OtherNoteSteps DEF NoteStep, Quiet, NotePassedOver

LEMMA HideInv ==
    ASSUME NotesInv, NEW b, NEW hidden, NoteHidden(b, hidden) PROVE NotesInv'
<1>1. KeysInv'
  BY KeysUntouched DEF NoteHidden, NotesInv
<1>2. RebuildOK'
  BY RebuildStays DEF NoteHidden, NotesInv
<1>3. \A c : RowOrNone(c)' = RowOrNone(c)
  BY SameNotes DEF NoteHidden
<1>4. RowsAreOfNotes'
  BY <1>3 DEF NoteHidden, NotesInv, RowsAreOfNotes
<1> QED BY <1>1, <1>2, <1>4 DEF NotesInv

LEMMA NoRebuildOK ==
    ASSUME KeysInv, rebuild = NoRebuild, history \in HistoryStates PROVE RebuildOK
<1>1. NoRebuild \in RebuildStates
  BY DEF NoRebuild, RebuildStates
<1> QED BY <1>1 DEF RebuildOK, NoRebuild, WritesNewer, FreshRebuild, RowOrNone

\* The rebuild's own steps.
LEMMA RebuildInv ==
    ASSUME NotesInv, UNCHANGED <<keyVars, messages>>,
           \/ StartEffect \/ DeleteEffect \/ ReadLogEffect \/ RestoreEffect \/ CommitEffect
           \/ RebuildRollback
           \/ \E m \in rebuild.todo : \/ RejectEffect(m) \/ SkipEffect(m) \/ CompareEffect(m)
                                      \/ \E b, row : WriteEffect(m, b, row)
    PROVE  NotesInv'
<1>1. KeysInv'
  BY KeysUntouched DEF NotesInv
<1>2. /\ Notes' = Notes /\ \A c : RowOrNone(c)' = RowOrNone(c)
      /\ Notes \subseteq SentNotes /\ history \in HistoryStates /\ rebuild \in RebuildStates
      /\ RowsAreOfNotes /\ RebuildOK
  BY SameNotes, NotesAreSent DEF NotesInv, RebuildOK
<1>3. UNCHANGED blocks_meta => RowsAreOfNotes'
  BY <1>2, RowsUntouched
<1>4. CASE StartEffect
  <2>1. RebuildOK'
    BY <1>2, <1>4 DEF StartEffect, RebuildOK, WritesNewer, FreshRebuild, RowOrNone
  <2> QED BY <1>1, <1>3, <1>4, <2>1 DEF NotesInv, StartEffect
<1>5. CASE DeleteEffect
  <2>1. RebuildOK'
    BY <1>2, <1>5 DEF DeleteEffect, RebuildOK, WritesNewer, FreshRebuild
  <2> QED BY <1>1, <1>3, <1>5, <2>1 DEF NotesInv, DeleteEffect
<1>7. CASE RestoreEffect
  <2>1. \A b \in Blocks : rebuild'.mine[b] \in RowOrNone(b)
    BY <1>2, <1>7 DEF RestoreEffect, RebuildOK, RebuildStates
  <2>2. RebuildOK'
    BY <1>2, <1>7, <2>1 DEF RestoreEffect, RebuildOK, WritesNewer, FreshRebuild
  <2> QED BY <1>1, <1>3, <1>7, <2>2 DEF NotesInv, RestoreEffect
<1>8. CASE CommitEffect
  <2>1. RowsAreOfNotes'
    BY <1>2, <1>8, SeesRows DEF CommitEffect, RowsAreOfNotes
  <2>2. RebuildOK'
    BY <1>1, <1>8, NoRebuildOK DEF CommitEffect, RebuildOK, NoRebuild, RebuildStates, WritesNewer, FreshRebuild,
       RowOrNone
  <2> QED BY <1>1, <2>1, <2>2 DEF NotesInv
<1>9. CASE RebuildRollback
  <2>1. rebuild' = NoRebuild /\ UNCHANGED <<blocks_meta, history>>
    BY <1>9 DEF RebuildRollback
  <2>2. RebuildOK'
    BY <1>1, <1>2, <2>1 DEF RebuildOK, NoRebuild, RebuildStates, WritesNewer, FreshRebuild, RowOrNone
  <2> QED BY <1>1, <1>3, <2>1, <2>2 DEF NotesInv
<1>10. ASSUME NEW m \in rebuild.todo, RejectEffect(m) \/ SkipEffect(m) PROVE NotesInv'
  <2>1. RebuildOK'
    BY <1>2, <1>10 DEF RejectEffect, SkipEffect, RebuildOK, WritesNewer, FreshRebuild
  <2> QED BY <1>1, <1>3, <1>10, <2>1 DEF NotesInv, RejectEffect, SkipEffect
<1>11. ASSUME NEW m \in rebuild.todo, CompareEffect(m) PROVE NotesInv'
  <2>1. m \in Notes /\ m.block \in Blocks
    BY <1>2, <1>11, NoteFacts DEF RebuildOK
  <2>2. Sees(m.block) \in RowOrNone(m.block)
    BY <2>1, SeesRows
  <2>3. \A n \in rebuild.todo : NextToReplay(n)' => n = m
    BY <1>11, OneIsNext DEF CompareEffect, NextToReplay
  <2>4. WritesNewer'
    BY <1>2, <1>11, <2>2, <2>3 DEF CompareEffect, WritesNewer, NewerThan
  <2>5. RebuildOK'
    BY <1>2, <1>11, <2>4 DEF CompareEffect, RebuildOK, FreshRebuild
  <2> QED BY <1>1, <1>3, <1>11, <2>5 DEF NotesInv, CompareEffect
<1>12. ASSUME NEW m \in rebuild.todo, NEW b, NEW row, WriteEffect(m, b, row) PROVE NotesInv'
  <2>1. \A c \in Blocks : rebuild'.mine[c] \in RowOrNone(c)
    BY <1>2, <1>12 DEF WriteEffect, RebuildOK
  <2>2. RebuildOK'
    BY <1>2, <1>12, <2>1 DEF WriteEffect, RebuildOK, WritesNewer, FreshRebuild
  <2> QED BY <1>1, <1>3, <1>12, <2>2 DEF NotesInv, WriteEffect
<1>6. CASE ReadLogEffect
  <2>1. RebuildOK'
    BY <1>2, <1>6 DEF ReadLogEffect, RebuildOK, WritesNewer, FreshRebuild
  <2> QED BY <1>1, <1>3, <1>6, <2>1 DEF NotesInv, ReadLogEffect
<1> QED BY <1>4, <1>5, <1>6, <1>7, <1>8, <1>9, <1>10, <1>11, <1>12

RebuildEffect ==
    \/ StartEffect \/ DeleteEffect \/ ReadLogEffect \/ RestoreEffect \/ CommitEffect
    \/ RebuildRollback
    \/ \E m \in rebuild.todo : \/ RejectEffect(m) \/ SkipEffect(m) \/ CompareEffect(m)
                               \/ \E b, row : WriteEffect(m, b, row)

\* All a step can be to the notes.
StepKinds ==
    \/ Quiet
    \/ \E m : NoteStored(m) \/ NotePassedOver(m) \/ NoteFailed(m)
    \/ \E h \in handlers : \E m, b, row : NoteUpserted(h, m, b, row)
    \/ \E b, hidden : NoteHidden(b, hidden)
    \/ RebuildEffect

Inv == NotesInv /\ JobsInv

LEMMA RebuildStepEffect ==
    ASSUME NotesInv, RebuildStep PROVE RebuildEffect /\ UNCHANGED <<keyVars, messages>>
<1>1. UNCHANGED <<keyVars, messages>>
  BY DEF RebuildStep, RebuildStart, RebuildDelete, RebuildReadLog, ReplayRead, ReplayWrite,
         RebuildRestore, RebuildCommit, RebuildRollback
<1>2. ASSUME NEW m \in rebuild.todo, ReplayRead(m) \/ ReplayWrite(m) PROVE RebuildEffect
  <2>1. RejectEffect(m) \/ SkipEffect(m) \/ CompareEffect(m) \/ \E b, row : WriteEffect(m, b, row)
    BY <1>2, ReplayReadStep, ReplayWriteStep
  <2> QED BY <2>1 DEF RebuildEffect
<1>3. CASE RebuildStart \/ RebuildDelete \/ RebuildReadLog
  BY <1>1, <1>3, StartSteps DEF RebuildEffect
<1>4. CASE RebuildRestore \/ RebuildCommit \/ RebuildRollback
  BY <1>1, <1>4, RestoreStep, CommitStep DEF RebuildEffect
<1> QED BY <1>1, <1>2, <1>3, <1>4 DEF RebuildStep

LEMMA Steps ==
    ASSUME Inv, [Next]_vars PROVE Inv' /\ StepKinds
<1>1. NotesInv /\ JobsInv /\ KeysInv
  BY DEF Inv, NotesInv
<1>2. ASSUME Quiet, KeysInv' PROVE NotesInv'
  <2>1. RebuildOK'
    BY <1>1, <1>2, RebuildStays DEF Quiet, NotesInv, RebuildOK
  <2> QED BY <1>1, <1>2, <2>1, RowsUntouched DEF NotesInv, Quiet
<1>3. CASE KeysNext /\ UNCHANGED <<noteVars, labelVars>>
  <2>1. Quiet /\ JobsInv'
    BY <1>1, <1>3, KeySteps, OtherJobs
  <2>2. KeysInv'
    BY <1>1, <1>3, KeysNextStep DEF noteVars
  <2> QED BY <1>2, <2>1, <2>2 DEF Inv, StepKinds
<1>4. CASE LabelsNext
  BY <1>1, <1>2, <1>4, LabelsAreQuiet, LabelKeys, LabelJobs DEF Inv, StepKinds
<1>5. ASSUME NotesNext, UNCHANGED labelVars PROVE NotesInv' /\ StepKinds
  <2>1. ASSUME NEW h \in handlers, NoteStep(h) PROVE NotesInv' /\ StepKinds
    <3>1. NotesInv'
      BY <1>1, <2>1, NoteHandlers, NoteStepInv DEF NotesInv
    <3>2. StepKinds
      BY <1>1, <2>1, StoreEffect, ReadEffect, UpsertEffect, FailEffect, OtherNoteSteps
         DEF NoteStep, StepKinds
    <3> QED BY <3>1, <3>2
  <2>2. CASE RebuildStep
    <3>1. RebuildEffect /\ UNCHANGED <<keyVars, messages>>
      BY <1>1, <2>2, RebuildStepEffect
    <3>2. NotesInv'
      BY <1>1, <3>1, RebuildInv DEF RebuildEffect
    <3> QED BY <3>1, <3>2 DEF StepKinds
  <2>3. CASE HideStep
    BY <1>1, <2>3, HideEffect, HideInv DEF HideStep, StepKinds
  <2>4. CASE PageStep
    <3>1. UNCHANGED <<keyVars, messages, blocks_meta, rebuild, history>>
      BY <2>4 DEF PageStep, PageSelect, PageRespond, CacheExpire
    <3>2. Quiet
      BY <3>1 DEF Quiet, Applies, Message, keyVars
    <3>3. KeysInv'
      BY <1>1, <3>1, KeysUntouched
    <3> QED BY <1>2, <3>2, <3>3 DEF StepKinds
  <2> QED BY <1>5, <2>1, <2>2, <2>3, <2>4 DEF NotesNext
<1>6. CASE UNCHANGED vars
  <2>1. UNCHANGED <<keyVars, messages, blocks_meta, rebuild, history, jobs, handlers>>
    BY <1>6 DEF vars, noteVars, labelVars, keyVars
  <2>2. Quiet
    BY <2>1 DEF Quiet, Applies, Message
  <2>3. KeysInv'
    BY <1>1, <2>1, KeysUntouched
  <2>4. JobsInv'
    BY <1>1, <2>1, JobsFewer
  <2> QED BY <1>2, <2>2, <2>3, <2>4 DEF Inv, StepKinds
<1> QED BY <1>1, <1>3, <1>4, <1>5, <1>6, OtherJobs DEF Next, Inv

LEMMA InitInv == Init => Inv
BY NotesInitInv DEF Init, LabelsInit, Inv, JobsInv

LEMMA InvHolds == Init /\ [][Next]_vars => []Inv
<1>1. Inv /\ [Next]_vars => Inv'
  BY Steps
<1> QED BY <1>1, InitInv, PTL

(***************************************************************************)
(* Revocations and registrations.                                          *)
(***************************************************************************)

(***************************************************************************)
(* A handler that acts for another's account resolved its key while the    *)
(* link was in force, having taken up its message before: if the link was  *)
(* revoked since, the message is dated at most the window after that.  The *)
(* revocation that is checked but not written saw the link in force.       *)
(***************************************************************************)
ActsInTime(h) ==
    h.request.kind = "message" =>
        /\ h.request.issued_at <= clock + WINDOW
        /\ h.phase # "verified" /\ h.account # Message(h).key =>
              LET link == account_keys[Message(h).key]
              IN  /\ link # None
                  /\ link.revoked_at = None \/ h.request.issued_at <= link.revoked_at + WINDOW

SawInForce(h) == At(h, "revoke", "checked") => h.saw.revoked_at = None

ActsInv == \A h \in handlers : ActsInTime(h) /\ SawInForce(h)

\* A handler after a step: just taken up, or moved, its account resolved now or
\* before, its link found in force now.
HandlerMoved(g) ==
    \/ /\ g.request \in inbox /\ Verified(g.request) /\ g.phase = "verified"
    \/ \E h \in handlers :
         /\ g.request = h.request
         /\ \/ h.request.kind \notin {"message", "revoke"}
            \/ /\ At(g, "revoke", "checked") /\ g.saw.revoked_at = None
            \/ /\ At(h, "message", "verified") /\ g.account = ActsFor(Message(h).key)
            \/ /\ h.request.kind = "message" /\ h.phase # "verified"
               /\ g.account = h.account

LEMMA HandlersMove ==
    ASSUME Inv, [Next]_vars, NEW g \in handlers' \ handlers
    PROVE  HandlerMoved(g)
<1>1. KeysInv /\ JobsInv /\ \A h \in handlers : HandlerOK(h)
  BY DEF Inv, NotesInv, KeysInv, HandlersOK
<1>2. ASSUME NEW r \in inbox, Receive(r) PROVE HandlerMoved(g)
  <2>1. g = [request |-> r, phase |-> "verified", account |-> None, saw |-> None] /\ Verified(r)
    BY <1>2 DEF Receive
  <2> QED BY <2>1 DEF HandlerMoved
<1>3. ASSUME NEW h \in handlers, NEW phase, NEW saw, GoOn(h, phase, saw)
      PROVE  g.request = h.request /\ g.phase = phase /\ g.account = h.account /\ g.saw = saw
  <2>1. PICK x : /\ x.request = h.request /\ x.phase = phase
                 /\ x.account = h.account /\ x.saw = saw
                 /\ handlers' = (handlers \ {h}) \cup {x}
    BY <1>1, <1>3, MovedHandler
  <2> QED BY <2>1
<1>4. ASSUME NEW h \in handlers, KeysStep(h) PROVE HandlerMoved(g)
  <2>1. CASE h.request.kind \notin {"message", "revoke"}
    BY <1>3, <1>4, <2>1 DEF KeysStep, LinkKey, RevokeRead, RevokeWrite, RegisterCheckName,
       RegisterCheckNewer, RegisterWrite, Finish, HandlerMoved, At
  <2>2. CASE RevokeRead(h)
    <3>1. /\ InForce(h.request.key) /\ At(h, "revoke", "verified")
          /\ GoOn(h, "checked", account_keys[h.request.key])
      BY <2>2 DEF RevokeRead, Finish
    <3>2. /\ g.request = h.request /\ g.phase = "checked"
          /\ g.saw = account_keys[h.request.key]
      BY <1>3, <3>1
    <3> QED BY <3>1, <3>2 DEF HandlerMoved, At, InForce
  <2> QED BY <1>4, <2>1, <2>2 DEF KeysStep, LinkKey, RevokeWrite, RegisterCheckName,
         RegisterCheckNewer, RegisterWrite, Finish, At
<1>5. ASSUME NEW h \in handlers, NoteStep(h) PROVE HandlerMoved(g)
  <2>1. CASE ResolveAccount(h)
    <3>1. PICK account : account = ActsFor(Message(h).key)
      OBVIOUS
    <3>2. PICK x : x = [h EXCEPT !.phase = "resolved", !.account = account]
      OBVIOUS
    <3>3. x.request = h.request /\ x.account = account
      BY <1>1, <3>2 DEF HandlerOK, IsHandler
    <3>4. handlers' = (handlers \ {h}) \cup {x} /\ At(h, "message", "verified")
      BY <2>1, <3>1, <3>2 DEF ResolveAccount
    <3> QED BY <3>1, <3>3, <3>4 DEF HandlerMoved
  <2>2. CASE ~ ResolveAccount(h)
    <3>1. /\ h.request.kind = "message" /\ h.phase # "verified"
          /\ \E phase, saw : GoOn(h, phase, saw)
      BY <1>5, <2>2 DEF NoteStep, RefuseNote, StoreMessage, ReadStored, UpsertNote, Invalidate,
         ApplyFails, At, Finish
    <3> QED BY <1>3, <3>1 DEF HandlerMoved
  <2> QED BY <2>1, <2>2
<1>6. ASSUME NEW h \in handlers, ApplyMeta(h) PROVE HandlerMoved(g)
  BY <1>3, <1>6 DEF ApplyMeta, HandlerMoved, At
<1>7. CASE LabelsNext
  BY <1>1, <1>6, <1>7, LabelHandlers
<1>8. CASE KeysNext
  BY <1>2, <1>4, <1>8 DEF KeysNext, Tick
<1>9. CASE NotesNext
  BY <1>5, <1>9 DEF NotesNext, RebuildStep, RebuildStart, RebuildDelete, RebuildReadLog,
     ReplayRead, ReplayWrite, RebuildRestore, RebuildCommit, RebuildRollback, HideStep, HideNote,
     PageStep, PageSelect, PageRespond, CacheExpire, keyVars
<1> QED BY <1>7, <1>8, <1>9 DEF Next, vars, keyVars

\* A step of a link: made where there was none, or revoked by a handler.
LinkMoved(k) ==
    \/ account_keys'[k] = account_keys[k]
    \/ account_keys[k] = None
    \/ \E h \in handlers \ handlers' :
         /\ At(h, "revoke", "checked") /\ h.request.key = k
         /\ account_keys'[k] # None
         /\ account_keys'[k].account = account_keys[k].account
         /\ account_keys'[k].created_at = account_keys[k].created_at
         /\ account_keys'[k].revoked_at = clock

LEMMA LinksMove ==
    ASSUME Inv, [Next]_vars
    PROVE  /\ clock \in Nat /\ clock' \in Nat /\ clock <= clock' /\ None \notin Int
           /\ \A k \in Keys : LinkMoved(k)
<1>1. KeysInv /\ KeysInv' /\ clock \in Nat /\ clock' \in Nat /\ None \notin Int
      /\ None \notin LinkRows
  BY Steps, RequestFacts DEF Inv, NotesInv, KeysInv, KeysOK
<1>2. CASE UNCHANGED <<clock, account_keys>>
  BY <1>1, <1>2 DEF LinkMoved
<1>3. CASE Tick
  BY <1>1, <1>3 DEF Tick, LinkMoved
<1>4. ASSUME NEW h \in handlers, LinkKey(h)
      PROVE  clock <= clock' /\ \A k \in Keys : LinkMoved(k)
  BY <1>1, <1>4 DEF LinkKey, LinkMoved, KeysInv, KeysOK
<1>5. ASSUME NEW h \in handlers, RevokeWrite(h)
      PROVE  clock <= clock' /\ \A k \in Keys : LinkMoved(k)
  <2> DEFINE key == h.request.key
             row == account_keys[key]
  <2>1. /\ At(h, "revoke", "checked") /\ h \in handlers \ handlers'
        /\ account_keys' = [account_keys EXCEPT ![key].revoked_at = clock]
        /\ UNCHANGED clock
    BY <1>5 DEF RevokeWrite, Finish
  <2>2. key \in Keys /\ row \in LinkRows
    BY <1>1, <2>1, RequestFacts DEF KeysInv, KeysOK, HandlersOK, HandlerOK, At
  <2>3. PICK new : new = [row EXCEPT !.revoked_at = clock]
    OBVIOUS
  <2>4. /\ new \in LinkRows /\ new.account = row.account
        /\ new.created_at = row.created_at /\ new.revoked_at = clock
    BY <1>1, <2>2, <2>3 DEF LinkRows
  <2>5. account_keys' = [account_keys EXCEPT ![key] = new]
    BY <2>1, <2>3
  <2>6. /\ account_keys'[key] = new /\ new # None
        /\ \A k \in Keys \ {key} : account_keys'[k] = account_keys[k]
    BY <1>1, <2>2, <2>4, <2>5 DEF KeysInv, KeysOK
  <2> QED BY <1>1, <2>1, <2>4, <2>6 DEF LinkMoved
<1>6. KeysNext => \/ UNCHANGED <<clock, account_keys>> \/ Tick
                  \/ \E h \in handlers : LinkKey(h) \/ RevokeWrite(h)
  BY DEF KeysNext, Receive, KeysStep, RevokeRead, RegisterCheckName, RegisterCheckNewer,
     RegisterWrite
<1>7. NotesNext \/ LabelsNext \/ UNCHANGED vars => UNCHANGED <<clock, account_keys>>
  BY DEF NotesNext, NoteStep, ResolveAccount, RefuseNote, StoreMessage, ReadStored, UpsertNote,
     Invalidate, ApplyFails, RebuildStep, RebuildStart, RebuildDelete, RebuildReadLog, ReplayRead,
     ReplayWrite, RebuildRestore, RebuildCommit, RebuildRollback, HideStep, HideNote, PageStep,
     PageSelect, PageRespond, CacheExpire, LabelsNext, keyVars, vars
<1> QED BY <1>1, <1>2, <1>3, <1>4, <1>5, <1>6, <1>7 DEF Next

LEMMA ActsStep ==
    ASSUME Inv, ActsInv, [Next]_vars PROVE ActsInv'
<1>1. /\ \A h \in handlers : h.request \in Requests /\ HandlerOK(h)
      /\ KeysInv /\ inbox \subseteq Requests /\ clock \in Nat /\ clock' \in Nat
      /\ clock <= clock' /\ WINDOW \in Nat /\ None \notin Int
      /\ \A k \in Keys : LinkMoved(k)
  BY LinksMove, RequestFacts DEF Inv, NotesInv, KeysInv, KeysOK, HandlersOK, HandlerOK
<1>2. ASSUME NEW h, h.request \in Requests, h.request.kind = "message"
      PROVE  /\ Message(h) = Message(h)' /\ Message(h).key \in Keys /\ h.request.issued_at \in Int
  BY <1>2, RequestFacts, NoteFacts DEF Message
\* What is true of a handler stays so if it stays.
<1>3. ASSUME NEW h \in handlers PROVE ActsInTime(h)'
  <2>1. SUFFICES ASSUME h.request.kind = "message" PROVE ActsInTime(h)'
    BY DEF ActsInTime
  <2>2. PICK k \in Keys : k = Message(h).key /\ k = Message(h)'.key
    BY <1>1, <1>2, <2>1
  <2>3. /\ h.request.issued_at \in Int /\ h.request.issued_at <= clock + WINDOW
        /\ h.phase # "verified" /\ h.account # k =>
              /\ account_keys[k] # None
              /\ account_keys[k].revoked_at = None
                   \/ h.request.issued_at <= account_keys[k].revoked_at + WINDOW
    BY <1>1, <1>2, <2>1, <2>2 DEF ActsInv, ActsInTime
  <2>4. h.request.issued_at <= clock' + WINDOW
    BY <1>1, <2>3
  <2>5. ASSUME h.phase # "verified", h.account # k
        PROVE  /\ account_keys'[k] # None
               /\ account_keys'[k].revoked_at = None
                    \/ h.request.issued_at <= account_keys'[k].revoked_at + WINDOW
    BY <1>1, <2>3, <2>5 DEF LinkMoved
  <2> QED BY <2>1, <2>2, <2>4, <2>5 DEF ActsInTime
<1>4. ASSUME NEW g \in handlers' \ handlers PROVE ActsInTime(g)' /\ SawInForce(g)'
  <2>1. HandlerMoved(g)
    BY HandlersMove
  <2>2. CASE g.request \in inbox /\ Verified(g.request) /\ g.phase = "verified"
    <3>1. g.request.issued_at \in Int /\ g.request.issued_at - clock <= WINDOW
      BY <1>1, <2>2, RequestFacts DEF Verified
    <3>2. g.request.issued_at <= clock' + WINDOW
      BY <1>1, <3>1
    <3> QED BY <2>2, <3>2 DEF ActsInTime, SawInForce, At
  <2>3. ASSUME NEW h \in handlers, g.request = h.request,
               h.request.kind \notin {"message", "revoke"}
        PROVE  ActsInTime(g)' /\ SawInForce(g)'
    BY <2>3 DEF ActsInTime, SawInForce, At
  <2>4. CASE At(g, "revoke", "checked") /\ g.saw.revoked_at = None
    BY <2>4 DEF ActsInTime, SawInForce, At
  <2>5. ASSUME NEW h \in handlers, g.request = h.request, At(h, "message", "verified"),
               g.account = ActsFor(Message(h).key)
        PROVE  ActsInTime(g)' /\ SawInForce(g)'
    <3>1. h.request.kind = "message" /\ ActsInTime(h)
      BY <2>5 DEF At, ActsInv
    <3>2. PICK k \in Keys : k = Message(g).key /\ k = Message(g)'.key /\ k = Message(h).key
      BY <1>1, <1>2, <2>5, <3>1 DEF Message
    <3>3. g.request.issued_at \in Int /\ g.request.issued_at <= clock + WINDOW
      BY <1>1, <1>2, <2>5, <3>1 DEF ActsInTime
    <3>4. g.request.issued_at <= clock' + WINDOW
      BY <1>1, <3>3
    <3>5. g.account # k => account_keys[k] # None /\ account_keys[k].revoked_at = None
      BY <2>5, <3>2 DEF ActsFor, InForce
    <3>6. g.account # k =>
            /\ account_keys'[k] # None
            /\ account_keys'[k].revoked_at = None
                 \/ g.request.issued_at <= account_keys'[k].revoked_at + WINDOW
      BY <1>1, <3>3, <3>5 DEF LinkMoved
    <3> QED BY <2>5, <3>1, <3>2, <3>4, <3>6 DEF ActsInTime, SawInForce, At
  <2>6. ASSUME NEW h \in handlers, g.request = h.request, h.request.kind = "message",
               h.phase # "verified", g.account = h.account
        PROVE  ActsInTime(g)' /\ SawInForce(g)'
    BY <1>3, <2>6 DEF ActsInTime, SawInForce, At, Message
  <2> QED BY <2>1, <2>2, <2>3, <2>4, <2>5, <2>6 DEF HandlerMoved
<1>5. \A h : SawInForce(h) => SawInForce(h)'
  BY DEF SawInForce, At
<1> QED BY <1>3, <1>4, <1>5 DEF ActsInv

\* The log takes a note only from a handler that acts for the block's account.
LEMMA NotesCome ==
    ASSUME Inv, [Next]_vars, NEW m \in Notes' \ Notes
    PROVE  \E h \in handlers :
             /\ At(h, "message", "resolved") /\ Message(h) = m
             /\ BlockAccount[m.block] = h.account /\ UNCHANGED account_keys
<1>1. ASSUME NEW h \in handlers, StoreMessage(h)
      PROVE  /\ At(h, "message", "resolved") /\ Message(h) = m
             /\ BlockAccount[m.block] = h.account /\ UNCHANGED account_keys
  BY <1>1 DEF StoreMessage, Notes
<1>2. m \in messages' \ messages
  BY DEF Notes
<1>3. UNCHANGED messages \/ \E h \in handlers : StoreMessage(h)
  BY DEF Next, NotesNext, NoteStep, ResolveAccount, RefuseNote, ReadStored,
     UpsertNote, Invalidate, ApplyFails, RebuildStep, RebuildStart, RebuildDelete,
     RebuildReadLog, ReplayRead, ReplayWrite, RebuildRestore, RebuildCommit, RebuildRollback,
     HideStep, HideNote, PageStep, PageSelect, PageRespond, CacheExpire, LabelsNext,
     noteVars, vars
<1> QED BY <1>1, <1>2, <1>3

(* What a revoked key's signatures stand for is settled, but for what a    *)
(* revocation moves that had looked before the first was written; and no   *)
(* note it dates more than the window after is stored for the account.     *)
THEOREM RevokedForGood == Spec => RevocationStands
<1> DEFINE HoldsFor(k) ==
             /\ \A t \in Times : SignedFor(k, t)' # SignedFor(k, t) =>
                  /\ account_keys[k].revoked_at <= t /\ t < clock
                  /\ \E h \in handlers \ handlers' : RevokesAgain(h, k)
             /\ \A m \in Notes' \ Notes :
                  m.key = k /\ BlockAccount[m.block] # k =>
                    m.issued_at <= account_keys[k].revoked_at + WINDOW
           Stands == \A k \in Keys : Revoked(k) => HoldsFor(k)
<1>1. ASSUME Inv, ActsInv, [Next]_vars, NEW k \in Keys, Revoked(k) PROVE HoldsFor(k)
  <2> DEFINE link == account_keys[k]
  <2>1. /\ link # None /\ link.revoked_at \in 0 .. clock /\ clock \in Nat
        /\ link.created_at \in Int /\ WINDOW \in Nat /\ MAX_CLOCK \in Nat
        /\ None \notin Int /\ LinkMoved(k)
    BY <1>1, LinksMove, RequestFacts DEF Revoked, Inv, NotesInv, KeysInv, KeysOK, LinksOK, LinkRows
  <2>2. ASSUME NEW t \in Times, SignedFor(k, t)' # SignedFor(k, t)
        PROVE  /\ link.revoked_at <= t /\ t < clock
               /\ \E h \in handlers \ handlers' : RevokesAgain(h, k)
    <3>1. t \in Int
      BY <2>1 DEF Times
    <3>2. account_keys'[k] # link
      BY <2>2 DEF SignedFor, LinkedWhenSigned
    <3>3. PICK h \in handlers \ handlers' :
            /\ At(h, "revoke", "checked") /\ h.request.key = k
            /\ account_keys'[k] # None
            /\ account_keys'[k].account = link.account
            /\ account_keys'[k].created_at = link.created_at
            /\ account_keys'[k].revoked_at = clock
      BY <2>1, <3>2 DEF LinkMoved
    <3>4. RevokesAgain(h, k)
      BY <1>1, <3>3 DEF ActsInv, SawInForce, RevokesAgain
    <3>5. LinkedWhenSigned(k, t)' # LinkedWhenSigned(k, t)
      BY <2>2, <3>3 DEF SignedFor
    <3>6. link.revoked_at <= t /\ t < clock
      BY <2>1, <3>1, <3>3, <3>5 DEF LinkedWhenSigned
    <3> QED BY <3>3, <3>4, <3>6
  <2>3. ASSUME NEW m \in Notes' \ Notes, m.key = k, BlockAccount[m.block] # k
        PROVE  m.issued_at <= link.revoked_at + WINDOW
    <3>1. PICK h \in handlers : /\ At(h, "message", "resolved") /\ Message(h) = m
                                /\ BlockAccount[m.block] = h.account
      BY <1>1, NotesCome
    <3>2. h.request.issued_at = m.issued_at
      BY <1>1, <3>1, NotesAssumption DEF Inv, NotesInv, KeysInv, HandlersOK, HandlerOK, At, Message
    <3>3. h.request.issued_at <= link.revoked_at + WINDOW
      BY <1>1, <2>1, <2>3, <3>1 DEF ActsInv, ActsInTime, At
    <3> QED BY <3>2, <3>3
  <2> QED BY <2>2, <2>3
<1>2. ASSUME Inv, ActsInv, [Next]_vars PROVE [Stands]_<<keyVars, noteVars>>
  BY <1>1, <1>2
<1>3. Init => ActsInv
  BY DEF Init, KeysInit, ActsInv
<1> HIDE DEF Stands
<1>4. Init /\ [][Next]_vars => [][Stands]_<<keyVars, noteVars>>
  BY <1>2, <1>3, ActsStep, InvHolds, PTL
<1>5. Spec => Init /\ [][Next]_vars
  BY DEF Spec
<1>6. [][Stands]_<<keyVars, noteVars>> => RevocationStands
  BY DEF RevocationStands, Stands
<1> QED BY <1>4, <1>5, <1>6

(* A registration gives way to one not newer only to a handler that had    *)
(* looked before it was written: what a handler saw was older than what it *)
(* asks for.                                                               *)
THEOREM OnlyOvertakersGoBack == Spec => OlderRegistrationOnlyOvertakes
<1> DEFINE Overtaken == \A k \in Keys :
             /\ users[k] # None
             /\ users'[k] # users[k]
             /\ users'[k].issued_at <= users[k].issued_at
             => \E h \in handlers \ handlers' : h.request.key = k /\ h.saw # users[k]
<1>1. ASSUME Inv, [Next]_vars PROVE [Overtaken]_users
  <2>1. KeysInv
    BY <1>1 DEF Inv, NotesInv
  <2>2. ASSUME NEW h \in handlers, RegisterWrite(h), UNCHANGED messages PROVE Overtaken
    BY <2>1, <2>2, RegisterWriteStep
  <2>3. CASE KeysNext /\ UNCHANGED noteVars
    BY <2>2, <2>3 DEF KeysNext, KeysStep, Tick, Receive, RevokeRead, RegisterCheckName,
       RegisterCheckNewer, LinkKey, RevokeWrite, noteVars
  <2>4. CASE NotesNext
    BY <2>4 DEF NotesNext, NoteStep, ResolveAccount, RefuseNote, StoreMessage, ReadStored,
       UpsertNote, Invalidate, ApplyFails, RebuildStep, RebuildStart, RebuildDelete,
       RebuildReadLog, ReplayRead, ReplayWrite, RebuildRestore, RebuildCommit, RebuildRollback,
       HideStep, HideNote, PageStep, PageSelect, PageRespond, CacheExpire, keyVars
  <2> QED BY <1>1, <2>3, <2>4 DEF Next, LabelsNext, vars, keyVars
<1> HIDE DEF Overtaken
<1>2. Init /\ [][Next]_vars => [][Overtaken]_users
  BY <1>1, InvHolds, PTL
<1>3. Spec => Init /\ [][Next]_vars
  BY DEF Spec
<1>4. [][Overtaken]_users => OlderRegistrationOnlyOvertakes
  BY DEF OlderRegistrationOnlyOvertakes, Overtaken
<1> QED BY <1>2, <1>3, <1>4

(***************************************************************************)
(* Hides.                                                                  *)
(***************************************************************************)
HiddenIs(b, hidden) == blocks_meta[b] # None => blocks_meta[b].hidden = hidden

\* Before the delete: previous is what is hidden.
SelectedOK ==
    /\ \A b \in rebuild.previous : blocks_meta[b] # None
    /\ \A b \in Blocks \ history.hid :
          /\ b \in rebuild.previous => HiddenIs(b, TRUE)
          /\ b \notin rebuild.previous => HiddenIs(b, FALSE)

\* Until the restore: what the transaction wrote lacks only the previous hides.
ReplayOK ==
    /\ rebuild.previous \subseteq rebuild.written
    /\ \A b \in rebuild.written \ history.hid :
          /\ b \in rebuild.previous => HiddenIs(b, TRUE)
          /\ b \notin rebuild.previous /\ rebuild.mine[b] = None => HiddenIs(b, FALSE)
          /\ b \notin rebuild.previous /\ rebuild.mine[b] # None =>
                HiddenIs(b, rebuild.mine[b].hidden)

RestoredOK ==
    \A b \in rebuild.written \ history.hid :
        rebuild.mine[b] # None => HiddenIs(b, rebuild.mine[b].hidden)

HidesInv ==
    /\ rebuild.phase = "selected" => SelectedOK
    /\ rebuild.phase \in {"deleted", "replaying", "writing"} => ReplayOK
    /\ rebuild.phase = "restored" => RestoredOK

\* The steps that leave what the transaction wrote, and its rows in place.
LEMMA HidesKept ==
    ASSUME HidesInv, NotesInv, UNCHANGED rebuild, history'.hid = history.hid,
           \A b \in rebuild.written : blocks_meta'[b] = blocks_meta[b],
           rebuild.phase = "selected" =>
              \A b \in Blocks :
                 /\ blocks_meta[b] # None =>
                       blocks_meta'[b] # None /\ blocks_meta'[b].hidden = blocks_meta[b].hidden
                 /\ blocks_meta[b] = None /\ blocks_meta'[b] # None =>
                       blocks_meta'[b].hidden = FALSE
    PROVE  HidesInv'
<1>1. rebuild \in RebuildStates
  BY DEF NotesInv, RebuildOK
<1>2. CASE rebuild.phase = "selected"
  <2>1. SelectedOK /\ rebuild.previous \subseteq Blocks
    BY <1>1, <1>2 DEF HidesInv, RebuildStates
  <2>2. SelectedOK'
    BY <1>2, <2>1 DEF SelectedOK, HiddenIs
  <2> QED BY <1>2, <2>2 DEF HidesInv
<1>3. CASE rebuild.phase \in {"deleted", "replaying", "writing"}
  <2>1. ReplayOK
    BY <1>3 DEF HidesInv
  <2>2. ReplayOK'
    BY <2>1 DEF ReplayOK, HiddenIs
  <2> QED BY <1>3, <2>2 DEF HidesInv
<1>4. CASE rebuild.phase = "restored"
  <2>1. RestoredOK
    BY <1>4 DEF HidesInv
  <2>2. RestoredOK'
    BY <2>1 DEF RestoredOK, HiddenIs
  <2> QED BY <1>4, <2>2 DEF HidesInv
<1>5. CASE rebuild.phase = "off"
  BY <1>5 DEF HidesInv
<1> QED BY <1>1, <1>2, <1>3, <1>4, <1>5 DEF RebuildStates

LEMMA HidesStep ==
    ASSUME NotesInv, HidesInv, StepKinds PROVE HidesInv'
<1>1. rebuild \in RebuildStates /\ \A b \in Blocks : blocks_meta[b] \in RowOrNone(b)
  BY DEF NotesInv, RebuildOK, RowsAreOfNotes
<1>2. CASE Quiet
  BY <1>2, HidesKept DEF Quiet
<1>3. ASSUME NEW m, NoteStored(m) \/ NotePassedOver(m) \/ NoteFailed(m) PROVE HidesInv'
  BY <1>3, HidesKept DEF NoteStored, NotePassedOver, NoteFailed
<1>4. ASSUME NEW h, NEW m, NEW b, NEW row, NoteUpserted(h, m, b, row) PROVE HidesInv'
  <2>1. rebuild.written \subseteq Blocks \ {b}
    BY <1>1, <1>4 DEF NoteUpserted, RebuildStates
  <2> QED BY <1>4, <2>1, HidesKept DEF NoteUpserted
<1>5. ASSUME NEW b, NEW hidden, NoteHidden(b, hidden) PROVE HidesInv'
  <2>1. rebuild.written \subseteq Blocks \ {b} /\ rebuild.previous \subseteq Blocks
    BY <1>1, <1>5 DEF NoteHidden, RebuildStates
  <2>2. CASE rebuild.phase = "selected"
    <3>1. SelectedOK'
      BY <1>5, <2>1, <2>2 DEF NoteHidden, HidesInv, SelectedOK, HiddenIs
    <3> QED BY <1>5, <2>2, <3>1 DEF NoteHidden, HidesInv
  <2>3. CASE rebuild.phase # "selected"
    BY <1>5, <2>1, <2>3, HidesKept DEF NoteHidden
  <2> QED BY <2>2, <2>3
<1>6. CASE StartEffect
  <2>1. \A b \in Blocks : blocks_meta[b] # None => blocks_meta[b].hidden \in BOOLEAN
    BY <1>1, RowsOnNotes DEF NotesInv
  <2>2. SelectedOK'
    BY <1>6, <2>1 DEF StartEffect, SelectedOK, HiddenIs
  <2> QED BY <1>6, <2>2 DEF StartEffect, HidesInv
<1>7. CASE DeleteEffect
  <2>1. SelectedOK /\ FreshRebuild /\ rebuild.previous \subseteq Blocks
    BY <1>1, <1>7 DEF DeleteEffect, HidesInv, NotesInv, RebuildOK, RebuildStates
  <2>2. ReplayOK'
    BY <1>7, <2>1 DEF DeleteEffect, SelectedOK, ReplayOK, HiddenIs, FreshRebuild
  <2> QED BY <1>7, <2>2 DEF DeleteEffect, HidesInv
<1>8. CASE ReadLogEffect
  <2>1. ReplayOK'
    BY <1>8 DEF ReadLogEffect, HidesInv, ReplayOK, HiddenIs
  <2> QED BY <1>8, <2>1 DEF ReadLogEffect, HidesInv
<1>9. ASSUME NEW m, RejectEffect(m) \/ SkipEffect(m) \/ CompareEffect(m) PROVE HidesInv'
  <2>1. ReplayOK'
    BY <1>9 DEF RejectEffect, SkipEffect, CompareEffect, HidesInv, ReplayOK, HiddenIs
  <2> QED BY <1>9, <2>1 DEF RejectEffect, SkipEffect, CompareEffect, HidesInv
<1>10. ASSUME NEW m, NEW b, NEW row, WriteEffect(m, b, row) PROVE HidesInv'
  <2>1. ReplayOK /\ rebuild.written \subseteq Blocks
    BY <1>1, <1>10 DEF WriteEffect, HidesInv, RebuildStates
  <2>2. ASSUME b \notin history.hid, blocks_meta[b] # None, b \notin rebuild.previous
        PROVE  blocks_meta[b].hidden = rebuild'.mine[b].hidden
    <3>1. CASE b \in rebuild.written
      BY <1>10, <2>1, <2>2, <3>1 DEF WriteEffect, ReplayOK, HiddenIs, Sees
    <3>2. CASE b \notin rebuild.written
      BY <1>10, <2>2, <3>2 DEF WriteEffect, Sees
    <3> QED BY <3>1, <3>2
  <2>3. ReplayOK'
    BY <1>10, <2>1, <2>2 DEF WriteEffect, ReplayOK, HiddenIs
  <2> QED BY <1>10, <2>3 DEF WriteEffect, HidesInv
<1>11. CASE RestoreEffect
  <2>1. ReplayOK /\ rebuild.written \subseteq Blocks
    BY <1>1, <1>11 DEF RestoreEffect, HidesInv, RebuildStates
  <2>2. \A b \in rebuild.previous : Sees(b) = rebuild.mine[b]
    BY <2>1 DEF ReplayOK, Sees
  <2>3. RestoredOK'
    <3>1. ASSUME NEW b \in rebuild'.written \ history.hid, rebuild'.mine[b] # None,
                 blocks_meta[b] # None
          PROVE  blocks_meta[b].hidden = rebuild'.mine[b].hidden
      <4>1. b \in rebuild.written
        BY <1>11, <2>1, <3>1 DEF RestoreEffect, ReplayOK
      <4>2. CASE b \in rebuild.previous
        <5>1. blocks_meta[b].hidden = TRUE
          BY <2>1, <3>1, <4>1, <4>2 DEF ReplayOK, HiddenIs
        <5>2. Sees(b) # None
          BY <1>11, <2>1, <2>2, <3>1, <4>1, <4>2 DEF RestoreEffect
        <5> QED BY <1>11, <4>2, <5>1, <5>2 DEF RestoreEffect
      <4>3. CASE b \notin rebuild.previous
        <5>1. rebuild'.mine[b] = rebuild.mine[b]
          BY <1>11, <2>1, <4>1, <4>3 DEF RestoreEffect
        <5> QED BY <2>1, <3>1, <4>1, <4>3, <5>1 DEF ReplayOK, HiddenIs
      <4> QED BY <4>2, <4>3
    <3>2. UNCHANGED <<blocks_meta, history>>
      BY <1>11 DEF RestoreEffect
    <3> QED BY <3>1, <3>2 DEF RestoredOK, HiddenIs
  <2> QED BY <1>11, <2>3 DEF RestoreEffect, HidesInv
<1>12. CASE CommitEffect \/ RebuildRollback
  BY <1>12 DEF CommitEffect, RebuildRollback, NoRebuild, HidesInv
<1> QED BY <1>2, <1>3, <1>4, <1>5, <1>6, <1>7, <1>8, <1>9, <1>10, <1>11, <1>12
        DEF StepKinds, RebuildEffect

(* A rebuild hides after it what was hidden before it, of the notes their  *)
(* blocks keep: what the transaction writes is locked from its delete on,  *)
(* and agrees with the committed rows save for the hides it has yet to     *)
(* restore; a hide in the gap before the delete is the exception.          *)
THEOREM RebuildsKeepHides == Spec => HidesSurviveOutsideTheGap
<1> DEFINE Kept == RebuildCommit => \A b \in Blocks \ history.hid :
         blocks_meta[b] # None /\ blocks_meta'[b] # None
         => blocks_meta'[b].hidden = blocks_meta[b].hidden
<1>1. ASSUME Inv, HidesInv, [Next]_vars PROVE [Kept]_<<blocks_meta, rebuild>>
  <2>1. ASSUME RebuildCommit PROVE Kept
    <3>1. CommitEffect
      BY <1>1, <2>1, CommitStep DEF Inv
    <3>2. RestoredOK
      BY <1>1, <3>1 DEF CommitEffect, HidesInv
    <3>3. \A b \in Blocks : blocks_meta'[b] = Sees(b)
      BY <3>1 DEF CommitEffect
    <3> QED BY <3>2, <3>3 DEF RestoredOK, HiddenIs, Sees
  <2> QED BY <2>1
<1>2. Init => HidesInv
  BY DEF Init, NotesInit, NoRebuild, HidesInv
<1>3. Inv /\ HidesInv /\ [Next]_vars => HidesInv'
  BY Steps, HidesStep DEF Inv
<1> HIDE DEF Kept
<1>4. Init /\ [][Next]_vars => [][Kept]_<<blocks_meta, rebuild>>
  BY <1>1, <1>2, <1>3, InvHolds, PTL
<1>5. Spec => Init /\ [][Next]_vars
  BY DEF Spec
<1>6. [][Kept]_<<blocks_meta, rebuild>> => HidesSurviveOutsideTheGap
  BY DEF HidesSurviveOutsideTheGap, Kept
<1> QED BY <1>4, <1>5, <1>6

(***************************************************************************)
(* What a rebuild replays.                                                 *)
(***************************************************************************)
\* A row no note of a set is newer than, and that is of one of them, holds
\* the newest of the set.
LEMMA NewestIs ==
    ASSUME NEW S \in SUBSET SentNotes, NEW row,
           row # None => row.digest \in Int /\ row.issued_at \in Int,
           \A n \in S : NotNewer(n, row),
           row # None => \E n \in S : n.digest = row.digest /\ n.issued_at = row.issued_at
    PROVE  Content(row) = Content(NewestOf(S))
<1>1. \A n \in S : n.digest \in Int /\ n.issued_at \in Int /\ n # None
  BY NoteFacts
<1>2. CASE S = {}
  BY <1>2 DEF Content, NewestOf
<1>3. CASE S # {}
  <2> DEFINE Latest(m) == \A other \in S :
               \/ other.issued_at < m.issued_at
               \/ other.issued_at = m.issued_at /\ other.digest <= m.digest
  <2>1. row # None
    BY <1>3 DEF NotNewer
  <2>2. PICK n \in S : n.digest = row.digest /\ n.issued_at = row.issued_at
    BY <2>1
  <2>3. \A other \in S : ~ NewerThan(other, row)
    BY DEF NotNewer
  <2>4. Latest(n)
    BY <1>1, <2>2, <2>3 DEF NewerThan
  <2>5. PICK newest : newest = NewestOf(S)
    OBVIOUS
  <2>6. newest = CHOOSE m \in S : Latest(m)
    BY <1>3, <2>5 DEF NewestOf
  <2>7. newest \in S /\ Latest(newest)
    BY <2>4, <2>6
  <2>8. newest.digest = n.digest
    BY <1>1, <2>2, <2>4, <2>7
  <2> QED BY <1>1, <2>1, <2>2, <2>5, <2>7, <2>8 DEF Content
<1> QED BY <1>2, <1>3

\* The replayed notes on b whose signers the rebuild did not refuse.
Replayed(b) ==
    {m \in rebuild.log \ (rebuild.todo \cup rebuild.rejected) : m.block = b}

ReplayedInOrder ==
    \A m \in rebuild.todo : \A n \in rebuild.log \ rebuild.todo : NewerThan(m, n)

\* The row is that of the newest of the replayed notes.
HoldsReplayed(b, row) ==
    /\ \A n \in Replayed(b) : NotNewer(n, row)
    /\ row # None =>
          \E n \in Replayed(b) : n.digest = row.digest /\ n.issued_at = row.issued_at

DeclaredInv ==
    /\ rebuild.phase \notin {"off", "selected"} =>
          \A b \in Blocks \ (history.live \cup rebuild.written) : blocks_meta[b] = None
    /\ rebuild.phase \in {"replaying", "writing", "restored"} =>
          /\ ReplayedInOrder
          /\ \A b \in Blocks \ history.live : HoldsReplayed(b, Sees(b))

LEMMA DeclaredKept ==
    ASSUME DeclaredInv, UNCHANGED rebuild, history.live \subseteq history'.live,
           rebuild.phase \notin {"off", "selected"} =>
              \A b \in Blocks \ history'.live : blocks_meta'[b] = blocks_meta[b]
    PROVE  DeclaredInv'
<1>1. \A b, row : HoldsReplayed(b, row) => HoldsReplayed(b, row)'
  BY DEF HoldsReplayed, Replayed, NotNewer, NewerThan
<1>2. ReplayedInOrder => ReplayedInOrder'
  BY DEF ReplayedInOrder, NewerThan
<1>3. rebuild.phase \notin {"off", "selected"} =>
         \A b \in Blocks \ history'.live : Sees(b)' = Sees(b)
  BY DEF Sees
<1>4. rebuild.phase \in {"replaying", "writing", "restored"} =>
         \A b \in Blocks \ history'.live : HoldsReplayed(b, Sees(b))'
  <2> SUFFICES ASSUME rebuild.phase \in {"replaying", "writing", "restored"},
                      NEW b \in Blocks \ history'.live
               PROVE  HoldsReplayed(b, Sees(b))'
    OBVIOUS
  <2>1. PICK row : row = Sees(b)
    OBVIOUS
  <2>2. HoldsReplayed(b, row)'
    BY <1>1, <2>1 DEF DeclaredInv
  <2>3. Sees(b)' = row
    BY <1>3, <2>1
  <2> QED BY <2>2, <2>3 DEF HoldsReplayed
<1> QED BY <1>2, <1>4 DEF DeclaredInv

LEMMA DeclaredStep ==
    ASSUME NotesInv, DeclaredInv, StepKinds PROVE DeclaredInv'
<1>1. /\ rebuild \in RebuildStates /\ rebuild.todo \subseteq rebuild.log
      /\ rebuild.log \subseteq SentNotes
      /\ rebuild.rejected \subseteq rebuild.log \ rebuild.todo
  BY DEF NotesInv, RebuildOK, RebuildStates
<1>2. CASE Quiet
  BY <1>2, DeclaredKept DEF Quiet
<1>3. ASSUME NEW m, NoteStored(m) \/ NotePassedOver(m) \/ NoteFailed(m) PROVE DeclaredInv'
  BY <1>3, DeclaredKept DEF NoteStored, NotePassedOver, NoteFailed
<1>4. ASSUME NEW h, NEW m, NEW b, NEW row, NoteUpserted(h, m, b, row) PROVE DeclaredInv'
  BY <1>4, DeclaredKept DEF NoteUpserted
<1>5. ASSUME NEW b, NEW hidden, NoteHidden(b, hidden) PROVE DeclaredInv'
  <2>1. rebuild.phase \notin {"off", "selected"} => b \in history.live
    BY <1>5 DEF NoteHidden, DeclaredInv
  <2> QED BY <1>5, <2>1, DeclaredKept DEF NoteHidden
<1>6. CASE StartEffect
  BY <1>6 DEF StartEffect, DeclaredInv
<1>7. CASE DeleteEffect
  BY <1>7 DEF DeleteEffect, DeclaredInv
<1>8. CASE ReadLogEffect
  <2>1. FreshRebuild /\ UNCHANGED <<blocks_meta, history>>
    BY <1>8 DEF ReadLogEffect, NotesInv, RebuildOK
  <2>2. \A b \in Blocks \ history.live : Sees(b)' = None
    BY <1>8, <2>1 DEF ReadLogEffect, DeclaredInv, Sees, FreshRebuild
  <2>3. ReplayedInOrder' /\ \A b : Replayed(b)' = {}
    BY <1>8 DEF ReadLogEffect, ReplayedInOrder, Replayed
  <2>4. \A b \in Blocks \ history.live : HoldsReplayed(b, Sees(b))'
    BY <2>2, <2>3 DEF HoldsReplayed
  <2> QED BY <1>8, <2>1, <2>3, <2>4 DEF ReadLogEffect, DeclaredInv
<1>9. ASSUME NEW m \in rebuild.todo, RejectEffect(m) \/ SkipEffect(m) \/ CompareEffect(m)
      PROVE  DeclaredInv'
  <2>1. /\ UNCHANGED <<blocks_meta, history>> /\ \A b : Sees(b)' = Sees(b)
        /\ rebuild'.log = rebuild.log /\ rebuild'.written = rebuild.written
        /\ ReplayedInOrder /\ NextToReplay(m)
    BY <1>9 DEF RejectEffect, SkipEffect, CompareEffect, Sees, DeclaredInv
  <2>2. ReplayedInOrder'
    BY <1>9, <2>1 DEF RejectEffect, SkipEffect, CompareEffect, ReplayedInOrder, NextToReplay,
       NewerThan
  <2>3. ASSUME NEW b \in Blocks \ history.live PROVE HoldsReplayed(b, Sees(b))'
    <3>1. PICK row : row = Sees(b)
      OBVIOUS
    <3>2. HoldsReplayed(b, row)
      BY <1>9, <3>1 DEF DeclaredInv, RejectEffect, SkipEffect, CompareEffect
    <3>3. Replayed(b) \subseteq Replayed(b)' /\ Replayed(b)' \subseteq Replayed(b) \cup {m}
      BY <1>1, <1>9 DEF RejectEffect, SkipEffect, CompareEffect, Replayed
    <3>4. m \in Replayed(b)' /\ m \notin Replayed(b) => NotNewer(m, row)
      BY <1>1, <1>9, <3>1 DEF RejectEffect, SkipEffect, CompareEffect, Replayed
    <3>5. HoldsReplayed(b, row)'
      BY <3>2, <3>3, <3>4 DEF HoldsReplayed, NotNewer, NewerThan
    <3>6. Sees(b)' = row
      BY <2>1, <3>1
    <3> QED BY <3>5, <3>6 DEF HoldsReplayed
  <2> QED BY <1>9, <2>1, <2>2, <2>3
          DEF DeclaredInv, RejectEffect, SkipEffect, CompareEffect
<1>10. ASSUME NEW m \in rebuild.todo, NEW b, NEW row, WriteEffect(m, b, row) PROVE DeclaredInv'
  <2>1. /\ UNCHANGED <<blocks_meta, history>> /\ \A c \in Blocks \ {b} : Sees(c)' = Sees(c)
        /\ Sees(b)' = rebuild'.mine[b] /\ rebuild'.mine[b] # None
        /\ rebuild'.mine[b].digest = m.digest /\ rebuild'.mine[b].issued_at = m.issued_at
        /\ rebuild'.log = rebuild.log /\ rebuild.written \subseteq rebuild'.written
        /\ ReplayedInOrder /\ NextToReplay(m) /\ b = m.block
    BY <1>10 DEF WriteEffect, Sees, DeclaredInv
  <2>2. ReplayedInOrder'
    BY <1>10, <2>1 DEF WriteEffect, ReplayedInOrder, NextToReplay, NewerThan
  <2>3. ASSUME NEW c \in Blocks \ history.live PROVE HoldsReplayed(c, Sees(c))'
    <3>1. CASE c = b
      <4>1. PICK new : new = rebuild'.mine[b]
        OBVIOUS
      <4>2. m \in Replayed(b)' /\ Replayed(b)' \subseteq Replayed(b) \cup {m}
        BY <1>1, <1>10, <2>1 DEF WriteEffect, Replayed
      <4>3. \A n \in Replayed(b) : NewerThan(m, n) /\ n \in SentNotes
        BY <1>1, <2>1 DEF ReplayedInOrder, Replayed
      <4>4. m \in SentNotes /\ new # None /\ new.digest = m.digest /\ new.issued_at = m.issued_at
        BY <1>1, <2>1, <4>1
      <4>5. \A n \in Replayed(b) \cup {m} : ~ NewerThan(n, new)
        BY <4>3, <4>4, NoteFacts DEF NewerThan
      <4>6. HoldsReplayed(b, new)'
        BY <4>2, <4>4, <4>5 DEF HoldsReplayed, NotNewer, NewerThan
      <4>7. Sees(b)' = new
        BY <2>1, <4>1
      <4> QED BY <3>1, <4>6, <4>7 DEF HoldsReplayed
    <3>2. CASE c # b
      <4>1. PICK old : old = Sees(c)
        OBVIOUS
      <4>2. HoldsReplayed(c, old)
        BY <1>10, <4>1 DEF DeclaredInv, WriteEffect
      <4>3. Replayed(c)' = Replayed(c)
        BY <1>10, <2>1, <3>2 DEF WriteEffect, Replayed
      <4>4. HoldsReplayed(c, old)'
        BY <4>2, <4>3 DEF HoldsReplayed, NotNewer, NewerThan
      <4>5. Sees(c)' = old
        BY <2>1, <3>2, <4>1
      <4> QED BY <4>4, <4>5 DEF HoldsReplayed
    <3> QED BY <3>1, <3>2
  <2> QED BY <1>10, <2>1, <2>2, <2>3 DEF DeclaredInv, WriteEffect
<1>11. CASE RestoreEffect
  <2>1. /\ UNCHANGED <<blocks_meta, history>> /\ rebuild.written \subseteq rebuild'.written
        /\ ReplayedInOrder' /\ \A b : Replayed(b)' = Replayed(b)
    BY <1>11 DEF RestoreEffect, ReplayedInOrder, Replayed
  <2>2. ASSUME NEW b \in Blocks
        PROVE  \/ Sees(b)' = Sees(b)
               \/ /\ Sees(b) # None /\ Sees(b)' # None
                  /\ Sees(b)'.digest = Sees(b).digest
                  /\ Sees(b)'.issued_at = Sees(b).issued_at
    BY <1>11 DEF RestoreEffect, Sees
  <2>3. ASSUME NEW b \in Blocks \ history.live PROVE HoldsReplayed(b, Sees(b))'
    <3>1. PICK old, new : old = Sees(b) /\ new = Sees(b)'
      OBVIOUS
    <3>2. HoldsReplayed(b, old)
      BY <1>11, <3>1 DEF DeclaredInv, RestoreEffect
    <3>3. \/ new = old
          \/ /\ old # None /\ new # None
             /\ new.digest = old.digest /\ new.issued_at = old.issued_at
      BY <2>2, <3>1
    <3>4. HoldsReplayed(b, new)'
      BY <2>1, <3>2, <3>3 DEF HoldsReplayed, NotNewer, NewerThan
    <3> QED BY <3>1, <3>4 DEF HoldsReplayed
  <2> QED BY <1>11, <2>1, <2>3 DEF DeclaredInv, RestoreEffect
<1>12. CASE CommitEffect \/ RebuildRollback
  BY <1>12 DEF CommitEffect, RebuildRollback, NoRebuild, DeclaredInv
<1> QED BY <1>2, <1>3, <1>4, <1>5, <1>6, <1>7, <1>8, <1>9, <1>10, <1>11, <1>12
        DEF StepKinds, RebuildEffect

(* A rebuild nothing overtook makes each note what the log declares: a     *)
(* block's row is always that of the newest of the replayed notes, which   *)
(* at the end are all the log has on it that their signers could declare.  *)
THEOREM RebuildsDeclare == Spec => RebuildGivesDeclared
<1> DEFINE Given == RebuildCommit => \A b \in Blocks :
         (/\ NotesOn(b) \subseteq rebuild.log
          /\ b \notin rebuild.raced \cup history.live
          /\ \A m \in NotesOn(b) : m \in rebuild.rejected <=>
               SignedFor(m.key, m.issued_at) # BlockAccount[b])
         => Content(blocks_meta'[b]) = Content(Declared(b))
<1>1. ASSUME Inv, DeclaredInv, [Next]_vars PROVE [Given]_<<blocks_meta, rebuild>>
  <2> SUFFICES ASSUME RebuildCommit, NEW b \in Blocks, NotesOn(b) \subseteq rebuild.log,
                      b \notin history.live,
                      \A m \in NotesOn(b) : m \in rebuild.rejected <=>
                         SignedFor(m.key, m.issued_at) # BlockAccount[b]
               PROVE  Content(blocks_meta'[b]) = Content(Declared(b))
    OBVIOUS
  <2>1. CommitEffect /\ NotesInv /\ KeysInv
    BY <1>1, CommitStep DEF Inv, NotesInv
  <2>2. PICK row : row = Sees(b)
    OBVIOUS
  <2>3. HoldsReplayed(b, row) /\ blocks_meta'[b] = row /\ rebuild.todo = {}
    BY <1>1, <2>1, <2>2 DEF CommitEffect, DeclaredInv, NotesInv, RebuildOK
  <2>4. PICK S : S = {m \in NotesOn(b) : SignedFor(m.key, m.issued_at) = BlockAccount[b]}
    OBVIOUS
  <2>5. S = Replayed(b)
    BY <2>1, <2>3, <2>4, NotesAreSent DEF Replayed, NotesInv, RebuildOK
  <2>6. S \in SUBSET SentNotes
    BY <2>1, <2>4, NotesAreSent
  <2>7. row # None => row.digest \in Int /\ row.issued_at \in Int
    BY <2>1, <2>2, SeesRows, RowsOnNotes
  <2>8. Content(row) = Content(NewestOf(S))
    BY <2>3, <2>5, <2>6, <2>7, NewestIs DEF HoldsReplayed
  <2> QED BY <2>3, <2>4, <2>8 DEF Declared
<1>2. Init => DeclaredInv
  BY DEF Init, NotesInit, NoRebuild, DeclaredInv
<1>3. Inv /\ DeclaredInv /\ [Next]_vars => DeclaredInv'
  BY Steps, DeclaredStep DEF Inv
<1> HIDE DEF Given
<1>4. Init /\ [][Next]_vars => [][Given]_<<blocks_meta, rebuild>>
  BY <1>1, <1>2, <1>3, InvHolds, PTL
<1>5. Spec => Init /\ [][Next]_vars
  BY DEF Spec
<1>6. [][Given]_<<blocks_meta, rebuild>> => RebuildGivesDeclared
  BY DEF RebuildGivesDeclared, Given
<1> QED BY <1>4, <1>5, <1>6

(***************************************************************************)
(* The newest note.                                                        *)
(***************************************************************************)
Dated(x) == x.digest \in Int /\ x.issued_at \in Int

\* The row is not older than n, or a note to replay on b is not.
Awaited(n, b, row, todo) ==
    NotNewer(n, row) \/ \E l \in todo : l.block = b /\ ~ NewerThan(n, l)

LEMMA AwaitedMoves ==
    ASSUME NEW n, NEW b, NEW row, NEW new, NEW m, NEW todo,
           Dated(n), Dated(m), row # None => Dated(row), \A l \in todo : Dated(l),
           new # None, new.digest = m.digest, new.issued_at = m.issued_at,
           row = None \/ NewerThan(m, row), Awaited(n, b, row, todo)
    PROVE  Awaited(n, b, new, todo \ {m})
<1>1. ~ NewerThan(n, m) => NotNewer(n, new)
  BY DEF NotNewer, NewerThan
<1>2. CASE NotNewer(n, row)
  <2>1. ~ NewerThan(n, m)
    BY <1>2 DEF NotNewer, NewerThan, Dated
  <2> QED BY <1>1, <2>1 DEF Awaited
<1>3. ASSUME NEW l \in todo, l.block = b, ~ NewerThan(n, l)
      PROVE  Awaited(n, b, new, todo \ {m})
  <2>1. CASE l = m
    BY <1>1, <1>3, <2>1 DEF Awaited
  <2>2. CASE l # m
    BY <1>3, <2>2 DEF Awaited
  <2> QED BY <2>1, <2>2
<1> QED BY <1>2, <1>3 DEF Awaited

LEMMA AwaitedBelow ==
    ASSUME NEW n, NEW x, NEW b, NEW row, NEW todo, Dated(n), Dated(x), row # None => Dated(row),
           \A l \in todo : Dated(l), ~ NewerThan(n, x), Awaited(x, b, row, todo)
    PROVE  Awaited(n, b, row, todo)
BY DEF Awaited, NotNewer, NewerThan, Dated

LEMMA AwaitedSkip ==
    ASSUME NEW n, NEW m, NEW b, NEW row, NEW todo, Dated(n), Dated(m), row # None => Dated(row),
           m.block = b => NotNewer(m, row), Awaited(n, b, row, todo)
    PROVE  Awaited(n, b, row, todo \ {m})
<1>1. CASE NotNewer(n, row)
  BY <1>1 DEF Awaited
<1>2. ASSUME NEW l \in todo, l.block = b, ~ NewerThan(n, l)
      PROVE  Awaited(n, b, row, todo \ {m})
  <2>1. CASE l = m
    BY <1>2, <2>1 DEF Awaited, NotNewer, NewerThan, Dated
  <2>2. CASE l # m
    BY <1>2, <2>2 DEF Awaited
  <2> QED BY <2>1, <2>2
<1> QED BY <1>1, <1>2 DEF Awaited

LEMMA AwaitedSame ==
    ASSUME NEW n, NEW b, NEW row, NEW new, NEW todo, Awaited(n, b, row, todo),
           \/ new = row
           \/ row # None /\ new # None /\ new.digest = row.digest /\ new.issued_at = row.issued_at
    PROVE  Awaited(n, b, new, todo)
BY DEF Awaited, NotNewer, NewerThan

\* A write that finds what its select saw puts a newer note there.
LEMMA NotRaced ==
    ASSUME KeysInv, NEW b, NEW row \in RowOrNone(b), NEW saw \in RowOrNone(b), NEW m,
           Content(row) = Content(saw), saw = None \/ NewerThan(m, saw)
    PROVE  row = None \/ NewerThan(m, row)
<1> SUFFICES ASSUME row # None PROVE NewerThan(m, row)
  OBVIOUS
<1>1. saw # None /\ saw.digest = row.digest
  BY RowsOnNotes DEF Content
<1>2. PICK x \in NotesOn(b) : x.digest = row.digest /\ x.issued_at = row.issued_at
  BY RowsOnNotes
<1>3. PICK y \in NotesOn(b) : y.digest = saw.digest /\ y.issued_at = saw.issued_at
  BY <1>1, RowsOnNotes
<1>4. x \in Sent /\ y \in Sent
  BY NotesAreSent
<1>5. x = y
  BY <1>1, <1>2, <1>3, <1>4, NoteFacts
<1> QED BY <1>1, <1>2, <1>3, <1>5 DEF NewerThan

\* Nothing of b is newer than its row but what a handler is applying.
NewestAt(b) ==
    \A n \in NotesOn(b) \ history.failed : Applies(n) \/ NotNewer(n, blocks_meta[b])

Doubted == history.raced \cup history.dropped

\* So it will be of what the rebuild commits: with what the log had, with what
\* is no more being applied, and with the row it takes the place of.
ComingAt(b) ==
    /\ \A n \in NotesOn(b) : n \in rebuild.log \/ ~ (Applies(n) \/ n \in history.failed) =>
          Awaited(n, b, Sees(b), rebuild.todo)
    /\ b \in rebuild.written /\ blocks_meta[b] # None =>
          Awaited(blocks_meta[b], b, Sees(b), rebuild.todo)

DoubtedNext ==
    rebuild.raced \cup {m.block : m \in rebuild.rejected} \cup (history.raced \cap history.live)

Running == rebuild.phase \in {"replaying", "writing", "restored"}

NewestInv ==
    /\ \A b \in Blocks \ Doubted : NewestAt(b)
    /\ Running => \A b \in Blocks \ DoubtedNext : ComingAt(b)

LEMMA AllDated ==
    ASSUME NotesInv
    PROVE  /\ \A n \in SentNotes : Dated(n)
           /\ \A b : \A n \in NotesOn(b) : Dated(n) /\ n.block = b /\ n \in Notes
           /\ \A n \in rebuild.todo : Dated(n) /\ n \in Notes /\ n.block \in Blocks
           /\ \A b \in Blocks : blocks_meta[b] # None => Dated(blocks_meta[b])
           /\ \A b \in Blocks : Sees(b) # None => Dated(Sees(b))
<1>1. \A n \in SentNotes : Dated(n)
  BY NoteFacts DEF Dated
<1>2. \A b : \A n \in NotesOn(b) : Dated(n) /\ n.block = b /\ n \in Notes
  BY <1>1, NotesAreSent DEF NotesInv
<1>3. \A n \in rebuild.todo : Dated(n) /\ n \in Notes /\ n.block \in Blocks
  BY <1>1, NotesAreSent, NoteFacts DEF NotesInv, RebuildOK
<1>4. \A b : \A row \in RowOrNone(b) : row # None => Dated(row)
  BY RowsOnNotes DEF NotesInv, Dated
<1>5. \A b \in Blocks : Sees(b) \in RowOrNone(b) /\ blocks_meta[b] \in RowOrNone(b)
  BY SeesRows DEF NotesInv, RowsAreOfNotes
<1> QED BY <1>1, <1>2, <1>3, <1>4, <1>5

LEMMA SameApplies ==
    ASSUME UNCHANGED keyVars PROVE \A n : Applies(n)' <=> Applies(n)
BY DEF Applies, Message, keyVars

\* The steps that take nothing from a block but a note's being applied.
LEMMA QuietNewest ==
    ASSUME NotesInv, NewestInv, Quiet PROVE NewestInv'
<1>1. \A b : NotesOn(b)' = NotesOn(b) /\ Sees(b)' = Sees(b)
  BY SameNotes DEF Quiet, Sees
<1>2. \A b : \A n \in NotesOn(b) : Applies(n) => Applies(n)'
  BY DEF Quiet, NotesOn
<1>3. \A b : NewestAt(b) => NewestAt(b)'
  BY <1>1, <1>2 DEF Quiet, NewestAt
<1>4. \A b : ComingAt(b) => ComingAt(b)'
  BY <1>1, <1>2 DEF Quiet, ComingAt
<1> QED BY <1>3, <1>4 DEF Quiet, NewestInv, Doubted, DoubtedNext, Running

LEMMA StoredNewest ==
    ASSUME NotesInv, NewestInv, NEW m, NoteStored(m) PROVE NewestInv'
<1>1. /\ \A b : \A n \in NotesOn(b)' :
           n \in NotesOn(b) \/ (n = m /\ (m \in messages \/ Applies(m)'))
      /\ UNCHANGED <<blocks_meta, rebuild, history>> /\ \A n : Applies(n) => Applies(n)'
      /\ \A b : Sees(b)' = Sees(b)
  BY DEF NoteStored, NotesOn, Notes, Sees
<1>2. \A b : \A n \in NotesOn(b)' : n \in NotesOn(b) \/ (n = m /\ m \notin messages /\ Applies(m)')
  BY <1>1 DEF NotesOn, Notes
<1>3. \A n \in rebuild.log : n \in messages
  BY DEF NotesInv, RebuildOK, Notes
<1>4. \A b : NewestAt(b) => NewestAt(b)'
  BY <1>1, <1>2 DEF NewestAt
<1>5. \A b : ComingAt(b) => ComingAt(b)'
  BY <1>1, <1>2, <1>3 DEF ComingAt
<1> QED BY <1>1, <1>4, <1>5 DEF NewestInv, Doubted, DoubtedNext, Running

LEMMA PassedOverNewest ==
    ASSUME NotesInv, NewestInv, NEW m, NotePassedOver(m) PROVE NewestInv'
<1>1. /\ \A b : NotesOn(b)' = NotesOn(b) /\ Sees(b)' = Sees(b)
      /\ UNCHANGED <<blocks_meta, rebuild, history>>
      /\ \A n : Applies(n) => Applies(n)' \/ n = m
      /\ m.block \in Blocks /\ NotNewer(m, blocks_meta[m.block])
      /\ m \in Notes /\ \A b : m \in NotesOn(b) => b = m.block
  BY SameNotes DEF NotePassedOver, Sees, NotesOn
<1>2. ASSUME NEW b \in Blocks, NewestAt(b) PROVE NewestAt(b)'
  BY <1>1, <1>2 DEF NewestAt
<1>3. ASSUME NEW b \in Blocks, ComingAt(b) PROVE ComingAt(b)'
  <2>1. ASSUME b = m.block PROVE Awaited(m, b, Sees(b), rebuild.todo)
    <3>1. PICK row, x, todo : row = Sees(b) /\ x = blocks_meta[b] /\ todo = rebuild.todo
      OBVIOUS
    <3>2. /\ Dated(m) /\ Dated(x) /\ (row # None => Dated(row)) /\ \A l \in todo : Dated(l)
          /\ x # None /\ ~ NewerThan(m, x)
      <4>1. m \in SentNotes
        BY <1>1, NotesAreSent DEF NotesInv
      <4> QED BY <1>1, <2>1, <3>1, <4>1, AllDated DEF NotNewer
    <3>3. Awaited(x, b, row, todo)
      <4>1. CASE b \in rebuild.written
        BY <1>3, <3>1, <3>2, <4>1 DEF ComingAt
      <4>2. CASE b \notin rebuild.written
        <5>1. row = x
          BY <3>1, <4>2 DEF Sees
        <5> QED BY <3>2, <5>1 DEF Awaited, NotNewer, NewerThan, Dated
      <4> QED BY <4>1, <4>2
    <3>4. Awaited(m, b, row, todo)
      BY <3>2, <3>3, AwaitedBelow
    <3> QED BY <3>1, <3>4
  <2> QED BY <1>1, <1>3, <2>1 DEF ComingAt
<1> QED BY <1>1, <1>2, <1>3 DEF NewestInv, Doubted, DoubtedNext, Running

LEMMA FailedNewest ==
    ASSUME NotesInv, NewestInv, NEW m, NoteFailed(m) PROVE NewestInv'
<1>1. \A b : NotesOn(b)' = NotesOn(b) /\ Sees(b)' = Sees(b)
  BY SameNotes DEF NoteFailed, Sees
<1>2. \A b : NewestAt(b) => NewestAt(b)'
  BY <1>1 DEF NoteFailed, NewestAt
<1>3. \A b : ComingAt(b) => ComingAt(b)'
  BY <1>1 DEF NoteFailed, ComingAt
<1> QED BY <1>2, <1>3 DEF NoteFailed, NewestInv, Doubted, DoubtedNext, Running

LEMMA UpsertedNewest ==
    ASSUME NotesInv, NewestInv, NEW h, NEW m, NEW b, NEW row, NoteUpserted(h, m, b, row)
    PROVE  NewestInv'
<1>1. PICK new : new = blocks_meta'[b]
  OBVIOUS
<1>2. /\ b \in Blocks /\ m \in NotesOn(b) /\ b \notin rebuild.written /\ row = blocks_meta[b]
      /\ \A c \in Blocks \ {b} : blocks_meta'[c] = blocks_meta[c] /\ Sees(c)' = Sees(c)
      /\ Sees(b) = row /\ Sees(b)' = new
      /\ new # None /\ new.digest = m.digest /\ new.issued_at = m.issued_at
      /\ \A c : NotesOn(c)' = NotesOn(c)
      /\ \A n : Applies(n) => Applies(n)' \/ n = m
      /\ history'.failed = history.failed /\ history'.dropped = history.dropped
      /\ history.raced \subseteq history'.raced /\ history'.raced \subseteq history.raced \cup {b}
      /\ history'.live = history.live \cup {b} /\ UNCHANGED rebuild
  BY <1>1, SameNotes DEF NoteUpserted, Sees
<1>3. b \notin history'.raced => b \notin history.raced /\ (row = None \/ NewerThan(m, row))
  <2>1. row \in RowOrNone(b) /\ h.saw \in RowOrNone(b) /\ (h.saw = None \/ NewerThan(m, h.saw))
    BY <1>2 DEF NoteUpserted, NotesInv, RowsAreOfNotes
  <2>2. PICK saw : saw = h.saw
    OBVIOUS
  <2>3. Content(row) = Content(saw) => row = None \/ NewerThan(m, row)
    BY <2>1, <2>2, NotRaced DEF NotesInv
  <2>4. b \notin history'.raced => Content(row) = Content(saw)
    BY <2>2 DEF NoteUpserted
  <2> QED BY <1>2, <2>3, <2>4
<1>4. /\ \A n \in NotesOn(b) : Dated(n) /\ n.block = b
      /\ row # None => Dated(row)
      /\ \A l \in rebuild.todo : Dated(l)
  BY <1>2, AllDated
<1>5. ASSUME NEW c \in Blocks \ {b}, NewestAt(c) PROVE NewestAt(c)'
  <2>1. m \notin NotesOn(c)
    BY <1>4, <1>2 DEF NotesOn
  <2> QED BY <1>2, <1>5, <2>1 DEF NewestAt
<1>6. ASSUME NEW c \in Blocks \ {b}, ComingAt(c) PROVE ComingAt(c)'
  <2>1. m \notin NotesOn(c)
    BY <1>4, <1>2 DEF NotesOn
  <2> QED BY <1>2, <1>6, <2>1 DEF ComingAt
<1>7. ASSUME b \notin history'.raced, NewestAt(b) PROVE NewestAt(b)'
  <2>1. ASSUME NEW n \in NotesOn(b), NotNewer(n, row) \/ n = m PROVE NotNewer(n, new)
    BY <1>2, <1>3, <1>4, <1>7, <2>1 DEF NotNewer, NewerThan, Dated
  <2>2. ASSUME NEW n \in NotesOn(b) \ history.failed PROVE Applies(n)' \/ NotNewer(n, new)
    BY <1>2, <1>7, <2>1, <2>2 DEF NewestAt
  <2> QED BY <1>1, <1>2, <2>2 DEF NewestAt
<1>8. ASSUME b \notin history'.raced, ComingAt(b) PROVE ComingAt(b)'
  <2>1. PICK todo : todo = rebuild.todo
    OBVIOUS
  <2>2. ASSUME NEW n \in NotesOn(b), Awaited(n, b, row, todo) PROVE Awaited(n, b, new, todo)
    <3>1. Awaited(n, b, new, todo \ {m})
      BY <1>2, <1>3, <1>4, <1>8, <2>1, <2>2, AwaitedMoves
    <3> QED BY <3>1 DEF Awaited
  <2>3. Awaited(m, b, new, todo)
    BY <1>2, <1>4 DEF Awaited, NotNewer, NewerThan, Dated
  <2>4. ASSUME NEW n \in NotesOn(b),
               n \in rebuild.log \/ ~ (Applies(n)' \/ n \in history.failed)
        PROVE  Awaited(n, b, new, todo)
    <3>1. CASE n = m
      BY <2>3, <3>1
    <3>2. CASE n # m
      BY <1>2, <1>8, <2>1, <2>2, <2>4, <3>2 DEF ComingAt
    <3> QED BY <3>1, <3>2
  <2> QED BY <1>2, <2>1, <2>4 DEF ComingAt
<1>9. \A c \in Blocks : c \notin Doubted' => c \notin Doubted /\ (c = b => b \notin history'.raced)
  BY <1>2 DEF Doubted
<1>10. \A c \in Blocks : c \notin DoubtedNext' =>
          c \notin DoubtedNext /\ (c = b => b \notin history'.raced)
  BY <1>2, <1>3 DEF DoubtedNext
<1>11. Running' <=> Running
  BY <1>2 DEF Running
<1> QED BY <1>5, <1>6, <1>7, <1>8, <1>9, <1>10, <1>11 DEF NewestInv

LEMMA HiddenNewest ==
    ASSUME NotesInv, NewestInv, NEW b, NEW hidden, NoteHidden(b, hidden) PROVE NewestInv'
<1>1. PICK row, new : row = blocks_meta[b] /\ new = blocks_meta'[b]
  OBVIOUS
<1>2. /\ b \in Blocks /\ b \notin rebuild.written /\ row # None /\ new # None
      /\ new.digest = row.digest /\ new.issued_at = row.issued_at
      /\ \A c \in Blocks \ {b} : blocks_meta'[c] = blocks_meta[c] /\ Sees(c)' = Sees(c)
      /\ Sees(b) = row /\ Sees(b)' = new
      /\ \A c : NotesOn(c)' = NotesOn(c)
      /\ \A n : Applies(n)' <=> Applies(n)
      /\ history'.failed = history.failed /\ history'.dropped = history.dropped
      /\ history'.raced = history.raced /\ history'.live = history.live /\ UNCHANGED rebuild
  BY <1>1, SameNotes, SameApplies DEF NoteHidden, Sees
<1>3. \A c \in Blocks \ {b} : (NewestAt(c) => NewestAt(c)') /\ (ComingAt(c) => ComingAt(c)')
  BY <1>2 DEF NewestAt, ComingAt
<1>4. NewestAt(b) => NewestAt(b)'
  BY <1>1, <1>2 DEF NewestAt, NotNewer, NewerThan
<1>5. ComingAt(b) => ComingAt(b)'
  <2>1. PICK todo : todo = rebuild.todo
    OBVIOUS
  <2>2. \A n : Awaited(n, b, row, todo) => Awaited(n, b, new, todo)
    BY <1>2, AwaitedSame
  <2> QED BY <1>2, <2>1, <2>2 DEF ComingAt
<1> QED BY <1>2, <1>3, <1>4, <1>5 DEF NewestInv, Doubted, DoubtedNext, Running

\* The steps of a rebuild that leave the rows, and what it sees of them.
LEMMA ReplayNewest ==
    ASSUME NotesInv, NewestInv, NEW m \in rebuild.todo,
           RejectEffect(m) \/ SkipEffect(m) \/ CompareEffect(m)
    PROVE  NewestInv'
<1>1. /\ \A b : NotesOn(b)' = NotesOn(b) /\ Sees(b)' = Sees(b)
      /\ \A n : Applies(n)' <=> Applies(n)
      /\ UNCHANGED <<blocks_meta, history>>
      /\ rebuild'.log = rebuild.log /\ rebuild'.written = rebuild.written
      /\ rebuild'.raced = rebuild.raced /\ rebuild.rejected \subseteq rebuild'.rejected
      /\ Running /\ (rebuild'.todo = rebuild.todo \/ rebuild'.todo = rebuild.todo \ {m})
  BY SameNotes, SameApplies DEF RejectEffect, SkipEffect, CompareEffect, Sees, Running
<1>2. \A b : NewestAt(b) => NewestAt(b)'
  BY <1>1 DEF NewestAt
<1>3. ASSUME NEW b \in Blocks, b \notin DoubtedNext', ComingAt(b) PROVE ComingAt(b)'
  <2>1. PICK row, todo, next : row = Sees(b) /\ todo = rebuild.todo /\ next = rebuild'.todo
    OBVIOUS
  <2>2. /\ Dated(m) /\ (row # None => Dated(row))
        /\ blocks_meta[b] # None => Dated(blocks_meta[b])
        /\ \A n \in NotesOn(b) : Dated(n)
    BY <2>1, AllDated
  <2>3. next = todo \/ (next = todo \ {m} /\ (m.block = b => NotNewer(m, row)))
    BY <1>1, <1>3, <2>1 DEF RejectEffect, SkipEffect, CompareEffect, DoubtedNext
  <2>4. \A n : Dated(n) /\ Awaited(n, b, row, todo) => Awaited(n, b, row, next)
    BY <2>2, <2>3, AwaitedSkip
  <2> QED BY <1>1, <1>3, <2>1, <2>2, <2>4 DEF ComingAt
<1>4. \A b \in Blocks : b \notin DoubtedNext' => b \notin DoubtedNext
  BY <1>1 DEF DoubtedNext
<1> QED BY <1>1, <1>2, <1>3, <1>4 DEF NewestInv, Doubted

LEMMA WriteNewest ==
    ASSUME NotesInv, NewestInv, NEW m \in rebuild.todo, NEW b, NEW row, WriteEffect(m, b, row)
    PROVE  NewestInv'
<1>1. PICK new, todo : new = rebuild'.mine[b] /\ todo = rebuild.todo
  OBVIOUS
<1>2. /\ b \in Blocks /\ b = m.block /\ m \in NotesOn(b) /\ row = Sees(b) /\ Sees(b)' = new
      /\ new # None /\ new.digest = m.digest /\ new.issued_at = m.issued_at
      /\ \A c : NotesOn(c)' = NotesOn(c)
      /\ \A c \in Blocks \ {b} : Sees(c)' = Sees(c)
      /\ \A n : Applies(n)' <=> Applies(n)
      /\ UNCHANGED <<blocks_meta, history>> /\ rebuild'.todo = todo \ {m}
      /\ rebuild'.log = rebuild.log /\ rebuild'.written = rebuild.written \cup {b}
      /\ rebuild.raced \subseteq rebuild'.raced /\ rebuild'.rejected = rebuild.rejected
      /\ Running
  BY <1>1, SameNotes, SameApplies DEF WriteEffect, Sees, Running
<1>3. b \notin rebuild'.raced => row = None \/ NewerThan(m, row)
  <2>1. PICK saw : saw = rebuild.saw
    OBVIOUS
  <2>2. /\ row \in RowOrNone(b) /\ saw \in RowOrNone(b) /\ (saw = None \/ NewerThan(m, saw))
    BY <1>2, <2>1, SeesRows DEF WriteEffect, NotesInv, RebuildOK, WritesNewer
  <2>3. Content(row) = Content(saw) => row = None \/ NewerThan(m, row)
    BY <2>2, NotRaced DEF NotesInv
  <2>4. b \notin rebuild'.raced => Content(row) = Content(saw)
    BY <2>1 DEF WriteEffect
  <2> QED BY <2>3, <2>4
<1>4. /\ Dated(m) /\ (row # None => Dated(row)) /\ \A l \in todo : Dated(l)
      /\ \A c \in Blocks : \A n \in NotesOn(c) : Dated(n)
      /\ \A c \in Blocks : blocks_meta[c] # None => Dated(blocks_meta[c])
      /\ \A c \in Blocks : Sees(c) # None => Dated(Sees(c))
  BY <1>1, <1>2, AllDated
<1>5. \A c : NewestAt(c) => NewestAt(c)'
  BY <1>2 DEF NewestAt
<1>6. ASSUME NEW c \in Blocks \ {b}, ComingAt(c) PROVE ComingAt(c)'
  <2>1. PICK old : old = Sees(c)
    OBVIOUS
  <2>2. \A n : Dated(n) /\ Awaited(n, c, old, todo) => Awaited(n, c, old, todo \ {m})
    BY <1>2, <1>4, <2>1, AwaitedSkip
  <2> QED BY <1>1, <1>2, <1>4, <1>6, <2>1, <2>2 DEF ComingAt
<1>7. ASSUME b \notin rebuild'.raced, ComingAt(b) PROVE ComingAt(b)'
  <2>1. \A n : Dated(n) /\ Awaited(n, b, row, todo) => Awaited(n, b, new, todo \ {m})
    BY <1>2, <1>3, <1>4, <1>7, AwaitedMoves
  <2>2. PICK x : x = blocks_meta[b]
    OBVIOUS
  <2>3. x # None => Awaited(x, b, new, todo \ {m})
    <3>1. CASE b \in rebuild.written
      BY <1>1, <1>2, <1>4, <1>7, <2>1, <2>2, <3>1 DEF ComingAt
    <3>2. CASE b \notin rebuild.written
      <4>1. row = x
        BY <1>2, <2>2, <3>2 DEF Sees
      <4> QED BY <1>2, <1>3, <1>4, <1>7, <4>1 DEF Awaited, NotNewer, NewerThan, Dated
    <3> QED BY <3>1, <3>2
  <2>4. \A n \in NotesOn(b) : n \in rebuild.log \/ ~ (Applies(n) \/ n \in history.failed) =>
           Awaited(n, b, new, todo \ {m})
    BY <1>1, <1>2, <1>4, <1>7, <2>1 DEF ComingAt
  <2> QED BY <1>2, <2>2, <2>3, <2>4 DEF ComingAt
<1>8. \A c \in Blocks : c \notin DoubtedNext' =>
         c \notin DoubtedNext /\ (c = b => b \notin rebuild'.raced)
  BY <1>2 DEF DoubtedNext
<1> QED BY <1>2, <1>5, <1>6, <1>7, <1>8 DEF NewestInv, Doubted

LEMMA RestoreNewest ==
    ASSUME NotesInv, NewestInv, RestoreEffect PROVE NewestInv'
<1>1. /\ \A b : NotesOn(b)' = NotesOn(b) /\ \A n : Applies(n)' <=> Applies(n)
      /\ UNCHANGED <<blocks_meta, history>>
      /\ rebuild'.log = rebuild.log /\ rebuild'.todo = rebuild.todo
      /\ rebuild'.raced = rebuild.raced /\ rebuild'.rejected = rebuild.rejected /\ Running
  BY SameNotes, SameApplies DEF RestoreEffect, Running
<1>2. \A b : NewestAt(b) => NewestAt(b)'
  BY <1>1 DEF NewestAt
<1>3. ASSUME NEW b \in Blocks, ComingAt(b) PROVE ComingAt(b)'
  <2>1. PICK row, new, todo : row = Sees(b) /\ new = Sees(b)' /\ todo = rebuild.todo
    OBVIOUS
  <2>2. \/ new = row
        \/ row # None /\ new # None /\ new.digest = row.digest /\ new.issued_at = row.issued_at
    BY <2>1 DEF RestoreEffect, Sees
  <2>3. \A n : Awaited(n, b, row, todo) => Awaited(n, b, new, todo)
    BY <2>2, AwaitedSame
  <2>4. PICK x : x = blocks_meta[b]
    OBVIOUS
  <2>5. b \in rebuild'.written /\ x # None => Awaited(x, b, new, todo)
    <3>1. CASE b \in rebuild.written
      BY <1>3, <2>1, <2>3, <2>4, <3>1 DEF ComingAt
    <3>2. CASE b \notin rebuild.written
      <4>1. row = x
        BY <2>1, <2>4, <3>2 DEF Sees
      <4>2. x # None => Dated(x)
        BY <2>4, AllDated
      <4> QED BY <2>2, <4>1, <4>2 DEF Awaited, NotNewer, NewerThan, Dated
    <3> QED BY <3>1, <3>2
  <2>6. \A n \in NotesOn(b) : n \in rebuild.log \/ ~ (Applies(n) \/ n \in history.failed) =>
           Awaited(n, b, new, todo)
    BY <1>3, <2>1, <2>3 DEF ComingAt
  <2> QED BY <1>1, <2>1, <2>4, <2>5, <2>6 DEF ComingAt
<1> QED BY <1>1, <1>2, <1>3 DEF NewestInv, Doubted, DoubtedNext, Running

LEMMA ReadLogNewest ==
    ASSUME NotesInv, NewestInv, ReadLogEffect PROVE NewestInv'
<1>1. /\ \A b : NotesOn(b)' = NotesOn(b) /\ \A n : Applies(n)' <=> Applies(n)
      /\ UNCHANGED <<blocks_meta, history>> /\ rebuild'.todo = Notes
  BY SameNotes, SameApplies DEF ReadLogEffect
<1>2. \A b : NewestAt(b) => NewestAt(b)'
  BY <1>1 DEF NewestAt
<1>3. ASSUME NEW b \in Blocks PROVE ComingAt(b)'
  <2>1. PICK new : new = Sees(b)'
    OBVIOUS
  <2>2. \A n \in NotesOn(b) : Dated(n) /\ n \in Notes /\ n.block = b
    BY AllDated
  <2>3. \A n \in NotesOn(b) : Awaited(n, b, new, Notes)
    BY <2>2 DEF Awaited, NewerThan, Dated
  <2>4. PICK x : x = blocks_meta[b]
    OBVIOUS
  <2>5. x # None => Awaited(x, b, new, Notes)
    <3> SUFFICES ASSUME x # None PROVE Awaited(x, b, new, Notes)
      OBVIOUS
    <3>1. PICK n \in NotesOn(b) : n.digest = x.digest /\ n.issued_at = x.issued_at
      BY <2>4, RowsOnNotes DEF NotesInv, RowsAreOfNotes
    <3> QED BY <2>2, <3>1 DEF Awaited, NewerThan, Dated
  <2> QED BY <1>1, <2>1, <2>3, <2>4, <2>5 DEF ComingAt
<1> QED BY <1>1, <1>2, <1>3 DEF NewestInv, Doubted

LEMMA CommitNewest ==
    ASSUME NotesInv, NewestInv, CommitEffect PROVE NewestInv'
<1>1. /\ \A b : NotesOn(b)' = NotesOn(b) /\ \A n : Applies(n)' <=> Applies(n)
      /\ Running /\ rebuild.todo = {} /\ ~ Running'
      /\ \A b \in Blocks : blocks_meta'[b] = Sees(b)
      /\ Doubted' = DoubtedNext /\ history'.failed = history.failed \ rebuild.log
  BY SameNotes, SameApplies
     DEF CommitEffect, Running, NoRebuild, NotesInv, RebuildOK, Doubted, DoubtedNext
<1>2. ASSUME NEW b \in Blocks, ComingAt(b) PROVE NewestAt(b)'
  <2>1. PICK row : row = Sees(b)
    OBVIOUS
  <2>2. \A n \in NotesOn(b) : Awaited(n, b, row, {}) => NotNewer(n, row)
    BY DEF Awaited
  <2>3. \A n \in NotesOn(b) \ (history.failed \ rebuild.log) : Applies(n) \/ NotNewer(n, row)
    BY <1>1, <1>2, <2>1, <2>2 DEF ComingAt
  <2> QED BY <1>1, <2>1, <2>3 DEF NewestAt
<1> QED BY <1>1, <1>2 DEF NewestInv

LEMMA NewestStep ==
    ASSUME NotesInv, NewestInv, StepKinds PROVE NewestInv'
<1>1. CASE StartEffect \/ DeleteEffect \/ RebuildRollback
  <2>1. /\ UNCHANGED <<keyVars, messages, blocks_meta>> /\ ~ Running'
        /\ history'.failed = history.failed /\ history'.raced = history.raced
        /\ history'.dropped = history.dropped
    BY <1>1 DEF StartEffect, DeleteEffect, RebuildRollback, NoRebuild, Running
  <2>2. \A b : NewestAt(b) => NewestAt(b)'
    BY <2>1, SameNotes, SameApplies DEF NewestAt
  <2> QED BY <2>1, <2>2 DEF NewestInv, Doubted
<1> QED BY <1>1, QuietNewest, StoredNewest, PassedOverNewest, FailedNewest, UpsertedNewest,
           HiddenNewest, ReplayNewest, WriteNewest, RestoreNewest, ReadLogNewest, CommitNewest
        DEF StepKinds, RebuildEffect

(* The note of a block is the newest its messages gave it, in any order of *)
(* handlers and beside any rebuild, but for the writes that raced, the     *)
(* applications that failed and the signers a rebuild refused: nothing is  *)
(* newer than a row but what a handler holds, and a rebuild that replays   *)
(* has seen, or will still replay, something no older than it replaces.    *)
THEOREM NotesStayNewest == Spec => []NotesAreNewest
<1>1. Init => NewestInv
  BY DEF Init, NotesInit, NoRebuild, NewestInv, NewestAt, NotesOn, Notes, Running
<1>2. Inv /\ NewestInv /\ [Next]_vars => NewestInv'
  BY Steps, NewestStep DEF Inv
<1>3. Inv /\ NewestInv => NotesAreNewest
  <2> SUFFICES ASSUME NotesInv, NewestInv, NEW b \in Blocks, ~ Applying(b),
                      b \notin history.raced \cup history.dropped,
                      history.failed \cap NotesOn(b) = {}
               PROVE  Content(blocks_meta[b]) = Content(NewestOf(NotesOn(b)))
    BY DEF NotesAreNewest, Inv
  <2>1. PICK row, S : row = blocks_meta[b] /\ S = NotesOn(b)
    OBVIOUS
  <2>2. \A n \in S : ~ Applies(n)
    BY <2>1 DEF Applies, Applying, At, NotesOn, Notes
  <2>3. \A n \in S : NotNewer(n, row)
    BY <2>1, <2>2 DEF NewestInv, NewestAt, Doubted
  <2>4. S \in SUBSET SentNotes
    BY <2>1, NotesAreSent DEF NotesInv
  <2>5. row # None => /\ row.digest \in Int /\ row.issued_at \in Int
                      /\ \E n \in S : n.digest = row.digest /\ n.issued_at = row.issued_at
    BY <2>1, RowsOnNotes DEF NotesInv, RowsAreOfNotes
  <2> QED BY <2>1, <2>3, <2>4, <2>5, NewestIs
<1>4. Spec => Init /\ [][Next]_vars
  BY DEF Spec
<1> QED BY <1>1, <1>2, <1>3, <1>4, InvHolds, PTL

(***************************************************************************)
(* Sources of labels.                                                      *)
(***************************************************************************)
Entries == UNION UNION {Lists[s] : s \in SourceSet}

SyncStates ==
    [ phase : {"off", "fetch", "upsert", "materialize"}, queue : Seq(SourceSet), now : Nat,
      list : SUBSET Entries, todo : SUBSET Entries, touched : SUBSET Keys ]

ClaimsOK ==
    \A c \in account_labels :
        c.account \in Keys /\ c.source \in SourceSet /\ c.observed_at \in 0 .. clock

\* What this run has written of its list is not the sweep's.
WrittenStays ==
    sync.phase = "upsert" =>
        \A e \in sync.list \ sync.todo : \A c \in account_labels :
            SameKey(c, e) => ~ (c.observed_at < sync.now)

SyncInv ==
    /\ sync \in SyncStates /\ listed \in [SourceSet -> SUBSET Entries]
    /\ sync.phase # "off" => sync.queue # <<>>
    /\ sync.phase = "upsert" => sync.list # {}
    /\ sync.now <= clock /\ sync.todo \subseteq sync.list
    /\ ClaimsOK /\ WrittenStays
    /\ failures \in 0 .. MAX_FAILURES /\ relists \in 0 .. MAX_RELISTS

LEMMA SourceFacts ==
    /\ \A e \in Entries : e.account \in Keys
    /\ \A s \in SourceSet : Lists[s] \subseteq SUBSET Entries
    /\ Sources \in Seq(SourceSet) /\ Sources # <<>>
    /\ MAX_FAILURES \in Nat /\ MAX_RELISTS \in Nat
<1>1. \A e \in Entries : e.account \in Keys
  BY LabelsAssumption DEF Entries, SourceSet
<1>2. \A s \in SourceSet : Lists[s] \subseteq SUBSET Entries
  BY DEF Entries
<1>3. Sources \in Seq(SourceSet)
  BY LabelsAssumption DEF SourceSet
<1> QED BY <1>1, <1>2, <1>3, LabelsAssumption

LEMMA SyncInitInv == Init => SyncInv
<1> SUFFICES ASSUME Init PROVE SyncInv
  OBVIOUS
<1>1. sync \in SyncStates /\ sync.phase = "off" /\ sync.now = 0 /\ sync.todo = {}
  BY DEF Init, LabelsInit, NoSync, SyncStates
<1>2. listed \in [SourceSet -> SUBSET Entries]
  BY SourceFacts DEF Init, LabelsInit
<1> QED BY <1>1, <1>2, SourceFacts
        DEF Init, LabelsInit, KeysInit, SyncInv, ClaimsOK, WrittenStays

\* Elsewhere the clock may run on.
LEMMA SyncStays ==
    ASSUME SyncInv, KeysInv, KeysInv', UNCHANGED <<sync, listed, account_labels>>,
           clock' \in {clock, clock + 1},
           failures' \in 0 .. MAX_FAILURES, relists' \in 0 .. MAX_RELISTS
    PROVE  SyncInv'
<1>1. clock \in Nat /\ sync.now \in Nat /\ SourceSet' = SourceSet /\ SyncStates' = SyncStates
  BY DEF KeysInv, KeysOK, SyncInv, SyncStates, SourceSet
<1>2. ClaimsOK'
  BY <1>1 DEF SyncInv, ClaimsOK
<1>3. WrittenStays'
  BY DEF SyncInv, WrittenStays, SameKey
<1> QED BY <1>1, <1>2, <1>3 DEF SyncInv, Entries

LEMMA NextSourceFacts ==
    ASSUME SyncInv, sync.queue # <<>>
    PROVE  /\ NextSource \in SyncStates
           /\ NextSource.phase # "off" => NextSource.queue # <<>>
           /\ NextSource.phase # "upsert"
           /\ NextSource.now = sync.now /\ NextSource.todo = {} /\ NextSource.list = {}
<1>1. PICK queue : queue = Tail(sync.queue)
  OBVIOUS
<1>2. queue \in Seq(SourceSet) /\ sync.now \in Nat
  BY <1>1 DEF SyncInv, SyncStates
<1>3. NextSource = [NoSync EXCEPT !.phase = IF queue = <<>> THEN "off" ELSE "fetch",
                                  !.queue = queue, !.now = sync.now]
  BY <1>1 DEF NextSource
<1>4. NextSource = [phase |-> IF queue = <<>> THEN "off" ELSE "fetch", queue |-> queue,
                    now |-> sync.now, list |-> {}, todo |-> {}, touched |-> {}]
  BY <1>3 DEF NoSync
<1> QED BY <1>2, <1>4 DEF SyncStates

\* Steps of the script that leave the claims.
LEMMA SyncMoves ==
    ASSUME SyncInv, KeysInv, UNCHANGED <<clock, listed, account_labels>>,
           failures' \in 0 .. MAX_FAILURES, relists' \in 0 .. MAX_RELISTS,
           sync' \in SyncStates, sync'.phase # "off" => sync'.queue # <<>>,
           sync'.now <= clock, sync'.todo \subseteq sync'.list,
           sync'.phase = "upsert" => sync'.todo = sync'.list /\ sync'.list # {}
    PROVE  SyncInv'
<1>1. ClaimsOK' /\ SyncStates' = SyncStates
  BY DEF SyncInv, ClaimsOK, SyncStates
<1>2. WrittenStays'
  BY DEF WrittenStays
<1> QED BY <1>1, <1>2 DEF SyncInv, Entries

LEMMA UpsertClaims ==
    ASSUME SyncInv, KeysInv, NEW batch \in Batches, SyncUpsert(batch), UNCHANGED clock
    PROVE  /\ SyncInv'
           /\ \A c \in account_labels : \E d \in account_labels' :
                 /\ d.account = c.account /\ d.source = c.source
                 /\ d.label_type = c.label_type /\ d.value = c.value
<1>1. PICK s : s = Head(sync.queue)
  OBVIOUS
<1>2. /\ sync \in SyncStates /\ sync.phase = "upsert" /\ s \in SourceSet
      /\ batch \subseteq sync.todo /\ batch \subseteq Entries /\ sync.todo \subseteq sync.list
      /\ sync.now \in 0 .. clock /\ clock \in Nat
      /\ sync' = [sync EXCEPT !.todo = @ \ batch]
      /\ UNCHANGED <<listed, relists, failures>>
  BY <1>1 DEF SyncUpsert, SyncInv, SyncStates, Batches, KeysInv, KeysOK
<1>3. /\ sync' \in SyncStates /\ sync'.phase = "upsert" /\ sync'.queue = sync.queue
      /\ sync'.now = sync.now /\ sync'.list = sync.list /\ sync'.todo = sync.todo \ batch
  BY <1>2 DEF SyncStates
<1> DEFINE kept == {c \in account_labels : \A e \in batch : ~ SameKey(c, e)}
           made(e) == Claim(e.account, s, e.label_type, e.value, sync.now, e.expires_at)
<1>4. account_labels' = kept \cup {made(e) : e \in batch}
  BY <1>1 DEF SyncUpsert
<1>5. \A e \in batch : /\ made(e).account = e.account /\ made(e).source = s
                       /\ made(e).label_type = e.label_type /\ made(e).value = e.value
                       /\ made(e).observed_at = sync.now
  BY DEF Claim
<1> HIDE DEF made
<1>6. ClaimsOK'
  <2>1. \A e \in batch : e.account \in Keys
    BY <1>2, SourceFacts
  <2>2. \A c \in account_labels' :
           c.account \in Keys /\ c.source \in SourceSet /\ c.observed_at \in 0 .. clock
    BY <1>2, <1>4, <1>5, <2>1 DEF SyncInv, ClaimsOK
  <2> QED BY <2>2 DEF ClaimsOK
<1>7. WrittenStays'
  <2>1. \A c, e : SameKey(c, e)' <=> SameKey(c, e)
    BY <1>3 DEF SameKey
  <2>2. ASSUME NEW e \in sync.list \ (sync.todo \ batch), NEW c \in account_labels',
               SameKey(c, e)
        PROVE  ~ (c.observed_at < sync.now)
    <3>1. CASE c \in kept
      BY <1>2, <2>2, <3>1 DEF SyncInv, WrittenStays
    <3>2. CASE c \in {made(x) : x \in batch}
      BY <1>2, <1>5, <3>2
    <3> QED BY <1>4, <3>1, <3>2
  <2> QED BY <1>3, <2>1, <2>2 DEF WrittenStays
<1>8. SyncInv'
  <2>1. SyncStates' = SyncStates
    BY DEF SyncStates
  <2> QED BY <1>2, <1>3, <1>6, <1>7, <2>1 DEF SyncInv, Entries
<1>9. ASSUME NEW c \in account_labels
      PROVE  \E d \in account_labels' :
                 /\ d.account = c.account /\ d.source = c.source
                 /\ d.label_type = c.label_type /\ d.value = c.value
  <2>1. CASE c \in kept
    BY <1>4, <2>1
  <2>2. ASSUME NEW e \in batch, SameKey(c, e)
        PROVE  \E d \in account_labels' :
                 /\ d.account = c.account /\ d.source = c.source
                 /\ d.label_type = c.label_type /\ d.value = c.value
    <3>1. made(e) \in account_labels'
      BY <1>4
    <3> QED BY <1>1, <1>5, <2>2, <3>1 DEF SameKey
  <2> QED BY <2>1, <2>2
<1> QED BY <1>8, <1>9

LEMMA SweepClaims ==
    ASSUME SyncInv, KeysInv, SyncSweep, UNCHANGED clock
    PROVE  /\ SyncInv'
           /\ sync.queue # <<>> /\ sync.list # {}
           /\ \A c \in account_labels \ account_labels' :
                 c.source = Head(sync.queue) /\ \A e \in sync.list : ~ SameKey(c, e)
<1>1. PICK touched : touched = {c.account : c \in sync.list \cup Swept}
  OBVIOUS
<1>2. /\ sync \in SyncStates /\ sync.phase = "upsert" /\ sync.todo = {}
      /\ sync.queue # <<>> /\ sync.list # {} /\ Swept \subseteq account_labels
      /\ account_labels' = account_labels \ Swept
      /\ sync' = [sync EXCEPT !.phase = "materialize", !.touched = touched]
      /\ UNCHANGED <<listed, relists, failures>>
  BY <1>1 DEF SyncSweep, SyncInv, Swept
<1>3. touched \in SUBSET Keys
  BY <1>1, <1>2, SourceFacts DEF SyncInv, SyncStates, ClaimsOK
<1>4. /\ sync' \in SyncStates /\ sync'.phase = "materialize" /\ sync'.queue = sync.queue
      /\ sync'.now = sync.now /\ sync'.list = sync.list /\ sync'.todo = sync.todo
  BY <1>2, <1>3 DEF SyncStates
<1>5. SyncInv'
  <2>1. SyncStates' = SyncStates
    BY DEF SyncStates
  <2> QED BY <1>2, <1>4, <2>1 DEF SyncInv, ClaimsOK, WrittenStays, Entries
<1>6. \A c \in Swept : c.source = Head(sync.queue) /\ \A e \in sync.list : ~ SameKey(c, e)
  BY <1>2 DEF SyncInv, WrittenStays, Swept
<1> QED BY <1>2, <1>5, <1>6

\* The script's call is for an account it has left.
SyncJobsOK ==
    \A j \in jobs : j.by = None =>
        sync.phase = "materialize" /\ j.account \in sync.touched

LEMMA JobSync ==
    ASSUME SyncInv, SyncJobsOK, KeysInv, JobsInv, UNCHANGED clock,
           NEW j \in jobs, JobStep(j) \/ JobFails(j)
    PROVE  SyncInv' /\ SyncJobsOK' /\ UNCHANGED account_labels
<1>1. /\ UNCHANGED <<listed, account_labels, relists>>
      /\ failures' \in 0 .. MAX_FAILURES
  <2>1. failures \in 0 .. MAX_FAILURES /\ MAX_FAILURES \in Nat
    BY SourceFacts DEF SyncInv
  <2>2. CASE JobFails(j)
    BY <2>1, <2>2 DEF JobFails, Throw
  <2>3. CASE JobStep(j)
    <3>1. UNCHANGED <<listed, account_labels, relists, failures>>
      BY <2>3 DEF JobStep, Throw, ReadStoredClaims, ReadSignedClaims, ReadAlias, WriteAlias,
         LogChange, ReadTags, RemoveTags, AddTags, InsertConflict
    <3> QED BY <2>1, <3>1
  <2> QED BY <2>2, <2>3
<1>2. relists' \in 0 .. MAX_RELISTS /\ sync \in SyncStates /\ sync.now <= clock
      /\ sync.todo \subseteq sync.list
  BY <1>1 DEF SyncInv
<1>3. CASE UNCHANGED sync
  <2>1. SyncInv'
    BY <1>1, <1>2, <1>3 DEF SyncInv, ClaimsOK, WrittenStays, SameKey, SyncStates, Entries
  <2>2. CASE \E k : /\ IsJob(k) /\ k.by = j.by /\ k.account = j.account
                    /\ jobs' = (jobs \ {j}) \cup {k}
    BY <1>1, <1>3, <2>1, <2>2 DEF SyncJobsOK
  <2>3. CASE jobs' = jobs \ {j}
    BY <1>1, <1>3, <2>1, <2>3 DEF SyncJobsOK
  <2>4. JobFails(j) => jobs' = jobs \ {j}
    BY DEF JobFails, Throw
  <2> QED BY <1>1, <2>1, <2>2, <2>3, <2>4, JobMoves
<1>4. CASE j.by = None /\ jobs' = jobs \ {j}
  <2>1. SyncJobsOK'
    BY <1>4 DEF SyncJobsOK, JobsInv
  <2>2. sync.queue # <<>> /\ sync.phase = "materialize"
    BY <1>4 DEF SyncJobsOK, SyncInv
  <2>3. CASE sync' = NextSource
    <3>1. SyncInv'
      BY <1>1, <1>2, <2>2, <2>3, NextSourceFacts, SyncMoves
    <3> QED BY <1>1, <2>1, <3>1
  <2>4. CASE sync' = [sync EXCEPT !.touched = @ \ {j.account}]
    <3>1. /\ sync' \in SyncStates /\ sync'.phase = sync.phase /\ sync'.queue = sync.queue
          /\ sync'.now = sync.now /\ sync'.list = sync.list /\ sync'.todo = sync.todo
      BY <1>2, <2>4 DEF SyncStates
    <3>2. SyncInv'
      BY <1>1, <1>2, <2>2, <3>1, SyncMoves
    <3> QED BY <1>1, <2>1, <3>2
  <2>5. CASE UNCHANGED sync
    BY <1>3, <2>5
  <2>6. sync' = NextSource \/ sync' = [sync EXCEPT !.touched = @ \ {j.account}] \/ UNCHANGED sync
    BY DEF JobStep, JobFails, Throw, Return, ReadStoredClaims, ReadSignedClaims,
       ReadAlias, WriteAlias, LogChange, ReadTags, RemoveTags, AddTags, InsertConflict
  <2> QED BY <2>3, <2>4, <2>5, <2>6
<1> QED BY <1>3, <1>4
        DEF JobStep, JobFails, Throw, Return, ReadStoredClaims, ReadSignedClaims,
            ReadAlias, WriteAlias, LogChange, ReadTags, RemoveTags, AddTags, InsertConflict

LEMMA SyncSteps ==
    ASSUME SyncInv, SyncJobsOK, KeysInv, UNCHANGED clock,
           SyncStart \/ SyncFetch \/ SyncSourceDone \/ SyncSourceFails \/ SyncDies
    PROVE  SyncInv' /\ SyncJobsOK' /\ UNCHANGED account_labels
<1>1. /\ UNCHANGED <<listed, account_labels, relists>> /\ failures' \in 0 .. MAX_FAILURES
      /\ relists' \in 0 .. MAX_RELISTS /\ sync \in SyncStates /\ sync.now <= clock
      /\ sync.todo \subseteq sync.list /\ clock \in Nat
  BY SourceFacts DEF SyncStart, SyncFetch, SyncSourceDone, SyncSourceFails, SyncDies, SyncInv,
     KeysInv, KeysOK
<1>2. SyncJobsOK'
  BY DEF SyncStart, SyncFetch, SyncSourceDone, SyncSourceFails, SyncDies, SyncJob, SyncJobsOK
<1>3. CASE sync' = NextSource /\ sync.phase # "off"
  BY <1>1, <1>2, <1>3, NextSourceFacts, SyncMoves DEF SyncInv
<1>4. CASE SyncStart
  <2>1. sync' = [phase |-> "fetch", queue |-> Sources, now |-> clock, list |-> {}, todo |-> {},
                 touched |-> {}]
    BY <1>4 DEF SyncStart, NoSync
  <2>2. sync' \in SyncStates
    BY <1>1, <2>1, SourceFacts DEF SyncStates
  <2>3. /\ sync'.phase = "fetch" /\ sync'.queue # <<>> /\ sync'.now = clock
        /\ sync'.todo = {} /\ sync'.list = {}
    BY <2>1, SourceFacts
  <2> QED BY <1>1, <1>2, <2>2, <2>3, SyncMoves
<1>5. CASE SyncDies
  <2>1. sync' \in SyncStates /\ sync'.phase = "off" /\ sync'.now = 0 /\ sync'.todo = {}
    BY <1>5 DEF SyncDies, NoSync, SyncStates
  <2> QED BY <1>1, <1>2, <2>1, SyncMoves
<1>6. CASE SyncFetch /\ sync' # NextSource
  <2>1. PICK list : list = listed[Head(sync.queue)]
    OBVIOUS
  <2>2. sync' = [sync EXCEPT !.phase = "upsert", !.list = list, !.todo = list]
    BY <1>6, <2>1 DEF SyncFetch
  <2>3. list \in SUBSET Entries /\ sync.queue # <<>> /\ list # {}
    BY <1>6, <2>1 DEF SyncFetch, SyncInv, SyncStates
  <2>4. /\ sync' \in SyncStates /\ sync'.queue = sync.queue /\ sync'.now = sync.now
        /\ sync'.list = list /\ sync'.todo = list
    BY <1>1, <2>2, <2>3 DEF SyncStates
  <2> QED BY <1>1, <1>2, <2>3, <2>4, SyncMoves
<1> QED BY <1>3, <1>4, <1>5, <1>6 DEF SyncFetch, SyncSourceDone, SyncSourceFails

LEMMA RelistStep ==
    ASSUME SyncInv, SyncJobsOK, KeysInv, UNCHANGED clock, NEW s \in SourceSet,
           NEW list \in {{}} \cup Lists[s], Relist(s, list)
    PROVE  SyncInv' /\ SyncJobsOK' /\ UNCHANGED account_labels
<1>1. /\ listed' = [listed EXCEPT ![s] = list] /\ list \in SUBSET Entries
      /\ UNCHANGED <<account_labels, sync, jobs, failures>>
      /\ relists' \in 0 .. MAX_RELISTS
  BY SourceFacts DEF Relist, SyncInv
<1>2. listed' \in [SourceSet -> SUBSET Entries]
  BY <1>1 DEF SyncInv
<1> QED BY <1>1, <1>2
        DEF SyncInv, SyncJobsOK, ClaimsOK, WrittenStays, SameKey, SyncStates, Entries, SourceSet

Unlisted ==
    \A c \in account_labels :
         \/ \E d \in account_labels' :
              /\ d.account = c.account /\ d.source = c.source
              /\ d.label_type = c.label_type /\ d.value = c.value
         \/ /\ sync.queue # <<>> /\ c.source = Head(sync.queue)
            /\ sync.list # {}
            /\ \A e \in sync.list : ~SameKey(c, e)

LEMMA LabelSync ==
    ASSUME SyncInv, SyncJobsOK, KeysInv, JobsInv, LabelsNext
    PROVE  SyncInv' /\ SyncJobsOK' /\ (Unlisted \/ UNCHANGED account_labels)
<1>1. UNCHANGED clock
  BY DEF LabelsNext
<1>2. ASSUME NEW h \in handlers, ApplyMeta(h)
      PROVE  SyncInv' /\ SyncJobsOK' /\ UNCHANGED account_labels
  <2>1. UNCHANGED <<listed, account_labels, sync, relists, failures>>
        /\ jobs' = jobs \cup {Job(h.request, h.account, clock)}
    BY <1>2 DEF ApplyMeta
  <2>2. h.request # None
    BY RequestFacts DEF KeysInv, HandlersOK, HandlerOK
  <2>3. Job(h.request, h.account, clock).by = h.request
    BY JobCalled
  <2> QED BY <1>1, <2>1, <2>2, <2>3
          DEF SyncInv, SyncJobsOK, ClaimsOK, WrittenStays, SameKey, SyncStates, Entries
<1>3. ASSUME NEW account \in sync.touched, SyncMaterialize(account)
      PROVE  SyncInv' /\ SyncJobsOK' /\ UNCHANGED account_labels
  <2>1. UNCHANGED <<listed, account_labels, sync, relists, failures>>
        /\ jobs' = jobs \cup {Job(None, account, sync.now)} /\ sync.phase = "materialize"
    BY <1>3 DEF SyncMaterialize
  <2>2. Job(None, account, sync.now).account = account
    BY DEF Job
  <2> QED BY <1>1, <1>3, <2>1, <2>2
          DEF SyncInv, SyncJobsOK, ClaimsOK, WrittenStays, SameKey, SyncStates, Entries
<1>4. ASSUME NEW batch \in Batches, SyncUpsert(batch)
      PROVE  SyncInv' /\ SyncJobsOK' /\ Unlisted
  <2>1. SyncJobsOK'
    BY <1>4 DEF SyncUpsert, SyncJobsOK
  <2> QED BY <1>1, <1>4, <2>1, UpsertClaims DEF Unlisted
<1>5. CASE SyncSweep
  <2>1. SyncJobsOK'
    BY <1>5 DEF SyncSweep, SyncJobsOK
  <2>2. Unlisted
    BY <1>1, <1>5, SweepClaims DEF Unlisted
  <2> QED BY <1>1, <1>5, <2>1, <2>2, SweepClaims
<1> QED BY <1>1, <1>2, <1>3, <1>4, <1>5, JobSync, SyncSteps, RelistStep
        DEF LabelsNext, LabelStep, LabelTrouble, SyncStep

LEMMA SourcesStep ==
    ASSUME Inv, SyncInv, SyncJobsOK, [Next]_vars
    PROVE  SyncInv' /\ SyncJobsOK' /\ [Unlisted]_account_labels
<1>1. KeysInv /\ KeysInv' /\ JobsInv
  BY Steps DEF Inv, NotesInv
<1>2. CASE UNCHANGED labelVars /\ clock' \in {clock, clock + 1}
  <2>1. SyncInv'
    BY <1>1, <1>2, SyncStays DEF labelVars, SyncInv
  <2>2. SyncJobsOK' /\ UNCHANGED account_labels
    BY <1>2 DEF SyncJobsOK, labelVars
  <2> QED BY <2>1, <2>2
<1>3. CASE LabelsNext
  BY <1>1, <1>3, LabelSync
<1>4. KeysNext \/ NotesNext \/ UNCHANGED vars => clock' \in {clock, clock + 1}
  BY DEF KeysNext, Tick, Receive, KeysStep, LinkKey, RevokeRead, RevokeWrite,
     RegisterCheckName, RegisterCheckNewer, RegisterWrite, NotesNext, NoteStep, ResolveAccount,
     RefuseNote, StoreMessage, ReadStored, UpsertNote, Invalidate, ApplyFails, RebuildStep,
     RebuildStart, RebuildDelete, RebuildReadLog, ReplayRead, ReplayWrite, RebuildRestore,
     RebuildCommit, RebuildRollback, HideStep, HideNote, PageStep, PageSelect, PageRespond,
     CacheExpire, keyVars, vars
<1> QED BY <1>2, <1>3, <1>4 DEF Next, vars

(* A directory's claim goes only by a sweep of its own source, of a list   *)
(* that has entries and not this one: what the run has upserted of the     *)
(* list bears the run's time, and the sweep takes what is older once all   *)
(* of it is.                                                               *)
THEOREM SweepsSpareTheListed == Spec => SweepsOnlyUnlisted
<1>1. Init => SyncInv /\ SyncJobsOK
  BY SyncInitInv DEF Init, LabelsInit, SyncJobsOK
<1>2. Init /\ [][Next]_vars => [][Unlisted]_account_labels
  BY <1>1, SourcesStep, InvHolds, PTL
<1>3. Spec => Init /\ [][Next]_vars
  BY DEF Spec
<1>4. [][Unlisted]_account_labels => SweepsOnlyUnlisted
  BY DEF SweepsOnlyUnlisted, Unlisted
<1> QED BY <1>2, <1>3, <1>4

(***************************************************************************)
(* Types.                                                                  *)
(***************************************************************************)
PagesOK ==
    /\ pages = [p \in Readers |-> pages[p]]
    /\ \A p \in Readers : pages[p] # None => pages[p].block \in Blocks
    /\ hides \in 0 .. MAX_HIDES

LEMMA PagesStep ==
    ASSUME PagesOK, [Next]_vars PROVE PagesOK'
<1>1. MAX_HIDES \in Nat
  BY NotesAssumption
<1>2. CASE UNCHANGED <<pages, hides>>
  BY <1>2 DEF PagesOK
<1>3. ASSUME NEW b, NEW hidden, HideNote(b, hidden) PROVE PagesOK'
  BY <1>1, <1>3 DEF HideNote, PagesOK
<1>4. ASSUME NEW p \in Readers, NEW b \in Blocks, PageSelect(p, b) PROVE PagesOK'
  <2>1. PICK page : page = [block |-> b, shown |-> Shown(b)]
    OBVIOUS
  <2>2. /\ page.block = b /\ UNCHANGED hides
        /\ pages' = [pages EXCEPT ![p] = page]
    BY <1>4, <2>1 DEF PageSelect
  <2> QED BY <2>2 DEF PagesOK
<1>5. ASSUME NEW p \in Readers, PageRespond(p) PROVE PagesOK'
  BY <1>5 DEF PageRespond, PagesOK
<1>6. (KeysNext /\ UNCHANGED noteVars) \/ LabelsNext \/ UNCHANGED vars => UNCHANGED <<pages, hides>>
  BY DEF LabelsNext, noteVars, vars
<1>7. (\E h \in handlers : NoteStep(h)) \/ RebuildStep \/ (\E b \in Blocks : CacheExpire(b)) =>
         UNCHANGED <<pages, hides>>
  BY DEF NoteStep, ResolveAccount, RefuseNote, StoreMessage, ReadStored, UpsertNote, Invalidate,
     ApplyFails, RebuildStep, RebuildStart, RebuildDelete, RebuildReadLog, ReplayRead,
     ReplayWrite, RebuildRestore, RebuildCommit, RebuildRollback, CacheExpire, noteVars
<1> QED BY <1>2, <1>3, <1>4, <1>5, <1>6, <1>7 DEF Next, NotesNext, HideStep, PageStep

LEMMA OneSyncJob ==
    ASSUME JobsInv PROVE Cardinality(SyncJob) <= 1
<1>1. CASE SyncJob = {}
  BY <1>1, FS_EmptySet
<1>2. ASSUME NEW j \in SyncJob PROVE Cardinality(SyncJob) <= 1
  <2>1. SyncJob = {j}
    BY <1>2 DEF SyncJob, JobsInv
  <2> QED BY <2>1, FS_Singleton
<1> QED BY <1>1, <1>2

LEMMA TypesOK ==
    ASSUME Inv, SyncInv, PagesOK PROVE TypeOK
<1>1. NotesInv /\ KeysInv /\ JobsInv /\ RebuildOK
  BY DEF Inv, NotesInv
<1>2. KeysTypeOK
  <2>1. \A h \in handlers : h.request \in Requests \ inbox
    BY <1>1 DEF KeysInv, HandlersOK, HandlerOK
  <2>2. \A k \in Keys : users[k] # None => users[k].issued_at \in Int
    BY <1>1 DEF KeysInv, KeysOK, UserRows
  <2> QED BY <1>1, <2>1, <2>2 DEF KeysInv, KeysOK, LinksOK, KeysTypeOK
<1>3. NotesTypeOK
  <2>1. ASSUME NEW b \in Blocks, blocks_meta[b] # None
        PROVE  /\ \E m \in Notes : m.block = b /\ m.digest = blocks_meta[b].digest
               /\ blocks_meta[b].hidden \in BOOLEAN
    <3>1. blocks_meta[b] \in RowOrNone(b)
      BY <1>1 DEF NotesInv, RowsAreOfNotes
    <3> QED BY <1>1, <2>1, <3>1, RowsOnNotes, NotesAreSent
  <2>2. rebuild.written \subseteq Blocks
    BY <1>1 DEF RebuildOK, RebuildStates
  <2> QED BY <1>1, <2>1, <2>2 DEF RebuildOK, PagesOK, NotesTypeOK
<1>4. \A j \in jobs \ SyncJob : \E h \in handlers : h.request = j.by /\ h.phase = "materializing"
  BY <1>1 DEF JobsInv, SyncJob, Waits
<1>5. /\ sync.touched \subseteq Keys /\ sync.todo \subseteq sync.list
      /\ failures \in 0 .. MAX_FAILURES /\ relists \in 0 .. MAX_RELISTS /\ ClaimsOK
  BY DEF SyncInv, SyncStates
<1> QED BY <1>1, <1>2, <1>3, <1>4, <1>5, OneSyncJob DEF TypeOK, ClaimsOK

(* Every row, handler, call and run of the rebuild and of the sync is of   *)
(* its type; a call that is not the script's has a handler that waits for  *)
(* it, and the script has one at most.                                     *)
THEOREM TypesHold == Spec => []TypeOK
<1>1. Init => PagesOK /\ SyncInv /\ SyncJobsOK
  BY NotesAssumption, SyncInitInv DEF Init, NotesInit, LabelsInit, PagesOK, SyncJobsOK
<1>2. Init /\ [][Next]_vars => []TypeOK
  BY <1>1, SourcesStep, PagesStep, InvHolds, TypesOK, PTL
<1>3. Spec => Init /\ [][Next]_vars
  BY DEF Spec
<1> QED BY <1>2, <1>3
=============================================================================
