----------------------------- MODULE DeliveryProofs -----------------------------
(* What holds, for every number of endpoints, messages, callers and connections,
   of what leaves the system, and of what it leaves through: events to webhook
   endpoints, mails to signers, downloads, lists read page by page, objects to the
   storage, statements to the databases.                                         *)
EXTENDS WebhookDelivery, EmailDelivery, DownloadGrants, Connections, ObjectStorage, Listing,
        FiniteSetTheorems, TLAPS

---------------------------------------------------------------------------------
(* Mails.  A reminder is under way only for a message that has no link yet, and
   what it has seen are links; the invitation had its own from the start.        *)
RemindersAreNew ==
  /\ link[Invitation] # "none"
  /\ \A m \in Message : /\ m \in reminding => link[m] = "none"
                        /\ \A n \in seen[m] : link[n] # "none"

EmailInv == EmailTypeOK /\ RemindersAreNew /\ NeverWithoutLink /\ BounceReachesSigner

LEMMA EmailInvInit == EmailInit => EmailInv
  <1> SUFFICES ASSUME EmailInit PROVE EmailInv
    OBVIOUS
  <1> USE EmailAssumption DEF EmailInit
  <1>1. EmailTypeOK
    <2>1. /\ link \in [Message -> {"none", "live", "revoked"}]
          /\ mail \in [Message -> MailStatus]
          /\ job \in [Message -> {"absent", "queued", "running", "over"}]
      BY DEF MailStatus
    <2>2. /\ identified \in [Message -> BOOLEAN] /\ mailed \in [Message -> BOOLEAN]
          /\ hardBounced \in BOOLEAN /\ complained \in BOOLEAN
      BY Zenon
    <2>3. /\ sender \in [Sender -> Message \cup {NoMessage}]
          /\ reminding \subseteq Message \ {Invitation}
          /\ seen \in [Message -> SUBSET Message]
          /\ onTheWay \in [Message -> SUBSET MailEvent]
          /\ processed \in [Message -> SUBSET MailEvent]
      OBVIOUS
    <2> QED BY <2>1, <2>2, <2>3 DEF EmailTypeOK
  <1>2. RemindersAreNew /\ BounceReachesSigner
    BY DEF RemindersAreNew, BounceReachesSigner
  <1>3. NeverWithoutLink
    BY DEF NeverWithoutLink
  <1> QED BY <1>1, <1>2, <1>3 DEF EmailInv

(* What the steps of reminders leave alone, and what those of mails do. *)
LEMMA LinksKept ==
  ASSUME RemindersAreNew, NeverWithoutLink, UNCHANGED links
  PROVE  RemindersAreNew' /\ NeverWithoutLink'
  BY DEF RemindersAreNew, NeverWithoutLink, links

LEMMA SignerKept ==
  ASSUME BounceReachesSigner, UNCHANGED <<processed, hardBounced, complained>>
  PROVE  BounceReachesSigner'
  BY DEF BounceReachesSigner

LEMMA EmailInvNext == EmailInv /\ [EmailNext]_emailVars => EmailInv'
  <1> SUFFICES ASSUME EmailInv, [EmailNext]_emailVars PROVE EmailInv'
    OBVIOUS
  <1> USE EmailAssumption
  <1>t. EmailTypeOK /\ RemindersAreNew /\ NeverWithoutLink /\ BounceReachesSigner
    BY DEF EmailInv
  <1>1. ASSUME NEW m \in Message, RevokeLinks(m) PROVE EmailInv'
    <2> USE <1>1 DEF RevokeLinks, MayRemind, messages, provider, signer
    <2>1. EmailTypeOK'
      BY <1>t DEF EmailTypeOK, Live, RemindersAreNew
    <2>2. RemindersAreNew'
      BY <1>t DEF EmailTypeOK, RemindersAreNew, Live
    <2>3. NeverWithoutLink'
      BY <1>t DEF NeverWithoutLink
    <2> QED BY <1>t, <2>1, <2>2, <2>3, SignerKept DEF EmailInv
  <1>2. ASSUME NEW m \in Message, CommitReminder(m) PROVE EmailInv'
    <2> USE <1>2 DEF CommitReminder, provider, signer
    <2>1. /\ link' \in [Message -> {"none", "live", "revoked"}]
          /\ link'[m] = "live"
          /\ \A n \in Message : link[n] # "none" => link'[n] # "none"
          /\ \A n \in reminding' : link'[n] = "none"
      BY <1>t DEF EmailTypeOK, RemindersAreNew
    <2>2. EmailTypeOK'
      BY <1>t, <2>1 DEF EmailTypeOK, MailStatus
    <2>3. RemindersAreNew'
      BY <1>t, <2>1 DEF EmailTypeOK, RemindersAreNew
    <2>4. NeverWithoutLink'
      BY <2>1 DEF NeverWithoutLink
    <2> QED BY <1>t, <2>2, <2>3, <2>4, SignerKept DEF EmailInv
  <1>3. ASSUME NEW m \in Message, NEW event \in MailEvent, ProviderReports(m, event) PROVE EmailInv'
    <2>1. EmailTypeOK'
      BY <1>t, <1>3 DEF ProviderReports, EmailTypeOK, links, messages, signer
    <2> QED BY <1>t, <1>3, <2>1, LinksKept, SignerKept DEF ProviderReports, signer, EmailInv
  <1>4. ASSUME NEW m \in Message, NEW event \in MailEvent, HandleEvent(m, event) PROVE EmailInv'
    <2> USE <1>4 DEF HandleEvent
    <2>1. hardBounced' \in BOOLEAN /\ complained' \in BOOLEAN
      BY <1>t, Zenon DEF EmailTypeOK
    <2>2. EmailTypeOK'
      BY <1>t, <2>1 DEF EmailTypeOK, links, MailStatus
    <2>3. BounceReachesSigner'
      BY <1>t DEF EmailTypeOK, BounceReachesSigner
    <2> QED BY <1>t, <2>2, <2>3, LinksKept DEF EmailInv
  <1>5. ASSUME NEW s \in Sender, NEW m \in Message, LoadMessage(s, m) PROVE EmailInv'
    <2> USE <1>5 DEF LoadMessage
    <2>1. resends' \in 0..MaxResends
      BY <1>t DEF EmailTypeOK
    <2>2. EmailTypeOK'
      BY <1>t, <2>1 DEF EmailTypeOK, links, provider, signer
    <2> QED BY <1>t, <2>2, LinksKept, SignerKept DEF EmailInv, signer
  <1>6. ASSUME NEW s \in Sender, SendAccepted(s) PROVE EmailInv'
    <2> USE <1>6 DEF SendAccepted
    <2>1. sender[s] \in Message
      BY <1>t DEF EmailTypeOK
    <2>2. EmailTypeOK'
      BY <1>t, <2>1 DEF EmailTypeOK, RecordAccepted, links, signer, MailStatus, MailEvent
    <2> QED BY <1>t, <2>2, LinksKept, SignerKept DEF EmailInv, signer
  <1>7. ASSUME NEW s \in Sender, SendUnrecorded(s) PROVE EmailInv'
    <2> USE <1>7 DEF SendUnrecorded
    <2>1. sender[s] \in Message
      BY <1>t DEF EmailTypeOK
    <2>2. mailed' \in [Message -> BOOLEAN]
      BY <1>t, <2>1, Zenon DEF EmailTypeOK
    <2>3. EmailTypeOK'
      BY <1>t, <2>1, <2>2 DEF EmailTypeOK, links, signer
    <2> QED BY <1>t, <2>3, LinksKept, SignerKept DEF EmailInv, signer
  <1>8. ASSUME NEW s \in Sender, SendRefused(s) PROVE EmailInv'
    <2> USE <1>8 DEF SendRefused
    <2>1. sender[s] \in Message
      BY <1>t DEF EmailTypeOK
    <2>2. EmailTypeOK'
      BY <1>t, <2>1 DEF EmailTypeOK, links, provider, signer, MailStatus, MailEvent
    <2> QED BY <1>t, <2>2, LinksKept, SignerKept DEF EmailInv, signer
  <1>9. CASE UNCHANGED emailVars
    BY <1>9, <1>t, LinksKept, SignerKept
       DEF emailVars, EmailTypeOK, links, EmailInv
  <1> QED BY <1>1, <1>2, <1>3, <1>4, <1>5, <1>6, <1>7, <1>8, <1>9 DEF EmailNext

(* Links, messages and the provider's events keep their types (packages/provider-adapters,
   email.ts; REMINDER_SEND).                                                                    *)
THEOREM EmailTypeCorrect == EmailSpec => []EmailTypeOK
  <1>1. EmailInv => EmailTypeOK
    BY DEF EmailInv
  <1> QED
    BY <1>1, EmailInvInit, EmailInvNext, PTL DEF EmailSpec

(* However the reminders of a signer overlap, each revoking the links that it
   found and none it did not, the signer has a link that works (signer links of
   REMINDER_SEND, public-signing-repository.ts): for any number of messages.     *)
THEOREM NeverWithoutLinkHolds == EmailSpec => []NeverWithoutLink
  <1>1. EmailInv => NeverWithoutLink
    BY DEF EmailInv
  <1> QED BY <1>1, EmailInvInit, EmailInvNext, PTL DEF EmailSpec

(* A bounce or a complaint that was recorded is known of the signer for good,
   in whatever order the provider's events come and whoever is sending.          *)
THEOREM BounceReachesSignerHolds == EmailSpec => []BounceReachesSigner
  <1>1. EmailInv => BounceReachesSigner
    BY DEF EmailInv
  <1> QED BY <1>1, EmailInvInit, EmailInvNext, PTL DEF EmailSpec

---------------------------------------------------------------------------------
(* Connections.  Every request at work has what it is at work with. *)
AtWork == {"begun", "works", "waits for queue", "enqueues", "fails"}

RequestKind == {"none", "tenant", "all tenants", "control", "provision"}

RequestsAreTyped ==
  /\ setting \in [Connection -> Organisation \cup {NoTenant}]
  /\ request \in [Request -> [kind : RequestKind, tenant : Organisation \cup {NoTenant},
                              at : AtWork \cup {"waits", "done"}]]
  /\ enqueued \subseteq Request /\ kept \subseteq Request

(* A connection is free or one request's; a tenant's transaction begins, another
   one does not, and only a provisioning calls the queue.                        *)
HeldByOne == holder \in [Connection -> {{}} \cup {{r} : r \in Request}]

RequestsAreSound ==
  \A r \in Request :
    /\ request[r].at = "begun" => request[r].kind = "tenant"
    /\ request[r].kind # "tenant" => request[r].tenant = NoTenant
    /\ request[r].at \in {"waits for queue", "enqueues", "fails"} => request[r].kind = "provision"

(* Who holds a connection of a pool is at what needs one of that pool ... *)
HoldersAreAtWork ==
  \A n \in Connection, r \in Request : holder[n] = {r} =>
    IF PoolOf[n] = QueuePool THEN request[r].at = "enqueues"
    ELSE PoolOf[n] = DatabaseOf(request[r].kind) /\ request[r].at \in AtWork

(* ... and holds no second one of the same pool. *)
OneOfEach ==
  \A n, o \in Connection, r \in Request :
    holder[n] = {r} /\ holder[o] = {r} /\ PoolOf[n] = PoolOf[o] => n = o

(* A connection has the setting of its holder from its first statement on, and
   none before, and none after.                                                  *)
SettingsAreOwn ==
  \A n \in Connection :
    /\ holder[n] = {} => setting[n] = NoTenant
    /\ \A r \in Request : holder[n] = {r} =>
         setting[n] = IF PoolOf[n] = QueuePool \/ request[r].at = "begun" THEN NoTenant ELSE request[r].tenant

ConnectionsInv ==
  RequestsAreTyped /\ HeldByOne /\ RequestsAreSound /\ HoldersAreAtWork /\ OneOfEach /\ SettingsAreOwn

LEMMA ConnectionsInvInit == ConnectionsInit => ConnectionsInv
  <1> SUFFICES ASSUME ConnectionsInit PROVE ConnectionsInv
    OBVIOUS
  <1>1. /\ \A n \in Connection : holder[n] = {} /\ setting[n] = NoTenant
        /\ \A r \in Request : request[r].kind = "none" /\ request[r].tenant = NoTenant /\ request[r].at = "done"
    BY DEF ConnectionsInit, Absent
  <1>2. RequestsAreTyped /\ HeldByOne
    BY DEF ConnectionsInit, Absent, RequestsAreTyped, HeldByOne, AtWork, RequestKind
  <1>3. \A n \in Connection, r \in Request : holder[n] # {r}
    BY <1>1
  <1> QED BY <1>1, <1>2, <1>3
          DEF ConnectionsInv, RequestsAreSound, HoldersAreAtWork, OneOfEach, SettingsAreOwn

(* The effect of a step on the request that takes it. *)
Becomes(r, kind, tenant, places) ==
  /\ request'[r].kind = kind /\ request'[r].tenant = tenant /\ request'[r].at \in places
  /\ \A q \in Request : q # r => request'[q] = request[q]

Goes(r, places) == Becomes(r, request[r].kind, request[r].tenant, places)

(* A connection is given back by who has no other of its pool. *)
Returned(r, n) ==
  /\ \A o \in Connection : holder'[o] = IF o = n THEN {} ELSE holder[o]
  /\ \A o \in Connection : setting'[o] = IF o = n THEN NoTenant ELSE setting[o]
  /\ holder[n] = {r}

LEMMA GiveBackEffect ==
  ASSUME RequestsAreTyped, HeldByOne, NEW r \in Request, NEW n \in Connection, holder[n] = {r}, GiveBack(r, n)
  PROVE  /\ Returned(r, n) /\ HeldByOne'
         /\ setting' \in [Connection -> Organisation \cup {NoTenant}]
  <1>1. Returned(r, n)
    BY DEF GiveBack, Returned, RequestsAreTyped, HeldByOne
  <1>2. HeldByOne'
    BY DEF GiveBack, HeldByOne
  <1>3. setting' \in [Connection -> Organisation \cup {NoTenant}]
    BY DEF GiveBack, RequestsAreTyped
  <1> QED BY <1>1, <1>2, <1>3

(* It is enough to look at the connections of who takes the step. *)
LEMMA HoldersElsewhere ==
  ASSUME HoldersAreAtWork, NEW r \in Request, \A q \in Request : q # r => request'[q] = request[q],
         \A o \in Connection, q \in Request : q # r /\ holder'[o] = {q} => holder[o] = {q},
         \A o \in Connection : holder'[o] = {r} =>
            IF PoolOf[o] = QueuePool THEN request'[r].at = "enqueues"
            ELSE PoolOf[o] = DatabaseOf(request'[r].kind) /\ request'[r].at \in AtWork
  PROVE  HoldersAreAtWork'
  <1> SUFFICES ASSUME NEW o \in Connection, NEW q \in Request, holder'[o] = {q}
               PROVE  IF PoolOf[o] = QueuePool THEN request'[q].at = "enqueues"
                      ELSE PoolOf[o] = DatabaseOf(request'[q].kind) /\ request'[q].at \in AtWork
    BY DEF HoldersAreAtWork
  <1>1. CASE q = r
    BY <1>1
  <1>2. CASE q # r
    <2>1. holder[o] = {q} /\ request'[q] = request[q]
      BY <1>2
    <2> QED BY <2>1 DEF HoldersAreAtWork
  <1> QED BY <1>1, <1>2

LEMMA ConnectionsInvNext == ConnectionsInv /\ [ConnectionsNext]_connectionVars => ConnectionsInv'
  <1> SUFFICES ASSUME ConnectionsInv, [ConnectionsNext]_connectionVars PROVE ConnectionsInv'
    OBVIOUS
  <1>t. RequestsAreTyped /\ HeldByOne /\ RequestsAreSound /\ HoldersAreAtWork /\ OneOfEach /\ SettingsAreOwn
    BY DEF ConnectionsInv
  <1>1. ASSUME NEW r \in Request, NEW kind \in RequestKind \ {"none"}, NEW t \in Organisation, Arrive(r, kind, t)
        PROVE ConnectionsInv'
    <2>1. request[r].at = "done"
      BY <1>1 DEF Arrive, Absent
    <2>2. \A n \in Connection : holder[n] # {r}
      BY <1>t, <2>1 DEF HoldersAreAtWork, AtWork
    <2>3. Becomes(r, kind, IF kind = "tenant" THEN t ELSE NoTenant, {"waits"})
      BY <1>1, <1>t DEF Arrive, RequestsAreTyped, Becomes
    <2>4. RequestsAreTyped' /\ HeldByOne' /\ UNCHANGED <<holder, setting>>
      BY <1>1, <1>t DEF Arrive, RequestsAreTyped, HeldByOne
    <2>5. RequestsAreSound'
      BY <1>t, <2>3 DEF Becomes, RequestsAreSound
    <2>6. HoldersAreAtWork' /\ OneOfEach' /\ SettingsAreOwn'
      BY <1>t, <2>2, <2>3, <2>4 DEF Becomes, HoldersAreAtWork, OneOfEach, SettingsAreOwn
    <2> QED BY <2>4, <2>5, <2>6 DEF ConnectionsInv
  <1>2. ASSUME NEW r \in Request, NEW n \in Connection, Acquire(r, n) PROVE ConnectionsInv'
    <2>1. \/ /\ request[r].at = "waits" /\ PoolOf[n] = DatabaseOf(request[r].kind)
             /\ Goes(r, IF request[r].kind = "tenant" THEN {"begun"} ELSE {"works"})
          \/ /\ request[r].at = "waits for queue" /\ PoolOf[n] = QueuePool
             /\ Goes(r, {"enqueues"})
      BY <1>2, <1>t DEF Acquire, RequestsAreTyped, Goes, Becomes
    <2>2. \A o \in Connection : holder[o] = {r} => PoolOf[o] # PoolOf[n]
      BY <1>t, <2>1 DEF HoldersAreAtWork, AtWork
    <2>3. /\ \A o \in Connection : holder'[o] = IF o = n THEN {r} ELSE holder[o]
          /\ holder[n] = {} /\ UNCHANGED setting
      BY <1>2, <1>t DEF Acquire, HeldByOne
    <2>4. RequestsAreTyped' /\ HeldByOne'
      BY <1>2, <1>t DEF Acquire, RequestsAreTyped, HeldByOne, AtWork
    <2>5. DatabaseOf(request[r].kind) # QueuePool
      BY DEF DatabaseOf, QueuePool
    <2>6. RequestsAreSound'
      BY <1>t, <2>1 DEF RequestsAreSound, Goes, Becomes
    <2>7. HoldersAreAtWork'
      <3>1. \A o \in Connection : holder'[o] = {r} =>
              IF PoolOf[o] = QueuePool THEN request'[r].at = "enqueues"
              ELSE PoolOf[o] = DatabaseOf(request'[r].kind) /\ request'[r].at \in AtWork
        <4>1. CASE request[r].at = "waits"
          BY <1>t, <2>1, <2>3, <2>5, <4>1 DEF HoldersAreAtWork, AtWork, Goes, Becomes
        <4>2. CASE request[r].at = "waits for queue"
          BY <1>t, <2>1, <2>3, <4>2 DEF HoldersAreAtWork, AtWork, Goes, Becomes, DatabaseOf, QueuePool
        <4> QED BY <2>1, <4>1, <4>2
      <3>2. \A o \in Connection, q \in Request : q # r /\ holder'[o] = {q} => holder[o] = {q}
        BY <2>3
      <3>3. \A q \in Request : q # r => request'[q] = request[q]
        BY <2>1 DEF Goes, Becomes
      <3> QED BY <1>t, <3>1, <3>2, <3>3, HoldersElsewhere
    <2>8. OneOfEach'
      BY <1>t, <2>2, <2>3 DEF OneOfEach
    <2>9. SettingsAreOwn'
      <3>1. setting[n] = NoTenant
        BY <1>t, <2>3 DEF SettingsAreOwn
      <3>2. PoolOf[n] # QueuePool => request'[r].at = "begun" \/ request'[r].tenant = NoTenant
        BY <1>t, <2>1, <2>5 DEF RequestsAreSound, Goes, Becomes
      <3>3. \A o \in Connection : holder[o] = {r} =>
              /\ request'[r].tenant = request[r].tenant
              /\ request'[r].at # "begun" /\ request[r].at # "begun"
        BY <1>t, <2>1 DEF HoldersAreAtWork, AtWork, Goes, Becomes
      <3>4. \A q \in Request : q # r => request'[q] = request[q]
        BY <2>1 DEF Goes, Becomes
      <3> QED BY <1>t, <2>3, <3>1, <3>2, <3>3, <3>4 DEF SettingsAreOwn
    <2> QED BY <2>4, <2>6, <2>7, <2>8, <2>9 DEF ConnectionsInv
  <1>3. ASSUME NEW r \in Request, SetContext(r) PROVE ConnectionsInv'
    <2>1. request[r].at = "begun" /\ request[r].kind = "tenant" /\ Goes(r, {"works"})
      BY <1>3, <1>t DEF SetContext, RequestsAreTyped, RequestsAreSound, Goes, Becomes
    <2>2. RequestsAreTyped' /\ HeldByOne' /\ UNCHANGED holder
      BY <1>3, <1>t DEF SetContext, RequestsAreTyped, HeldByOne, AtWork
    <2>3. RequestsAreSound' /\ OneOfEach'
      BY <1>t, <2>1, <2>2 DEF RequestsAreSound, OneOfEach, Goes, Becomes
    <2>4. HoldersAreAtWork'
      BY <1>t, <2>1, <2>2, HoldersElsewhere DEF HoldersAreAtWork, Goes, Becomes, AtWork, DatabaseOf, QueuePool
    <2>5. \A o \in Connection : /\ holder[o] = {r} => PoolOf[o] = "data" /\ setting'[o] = request[r].tenant
                                /\ holder[o] # {r} => setting'[o] = setting[o]
      BY <1>3, <1>t, <2>1 DEF HoldersAreAtWork, Owns, DatabaseOf, SetContext, RequestsAreTyped
    <2>6. SettingsAreOwn'
      BY <1>t, <2>1, <2>2, <2>5 DEF SettingsAreOwn, Goes, Becomes, QueuePool
    <2> QED BY <2>2, <2>3, <2>4, <2>6 DEF ConnectionsInv
  <1>4. ASSUME NEW r \in Request, CallQueue(r) PROVE ConnectionsInv'
    <2>1. /\ request[r].kind = "provision" /\ request[r].at = "works"
          /\ Goes(r, {"waits for queue"}) /\ UNCHANGED <<holder, setting>>
      BY <1>4, <1>t DEF CallQueue, RequestsAreTyped, Goes, Becomes
    <2>2. RequestsAreTyped' /\ HeldByOne'
      BY <1>4, <1>t DEF CallQueue, RequestsAreTyped, HeldByOne, AtWork
    <2>3. RequestsAreSound'
      BY <1>t, <2>1 DEF RequestsAreSound, Goes, Becomes
    <2>4. HoldersAreAtWork'
      BY <1>t, <2>1, HoldersElsewhere DEF HoldersAreAtWork, AtWork, Goes, Becomes, DatabaseOf, QueuePool
    <2>5. OneOfEach' /\ SettingsAreOwn'
      BY <1>t, <2>1, ZenonT(60) DEF OneOfEach, SettingsAreOwn, Goes, Becomes
    <2> QED BY <2>2, <2>3, <2>4, <2>5 DEF ConnectionsInv
  <1>5. ASSUME NEW r \in Request, NEW n \in Connection, Enqueue(r, n) PROVE ConnectionsInv'
    <2>1. /\ request[r].at = "enqueues" /\ request[r].kind = "provision"
          /\ holder[n] = {r} /\ PoolOf[n] = QueuePool
          /\ Goes(r, {"works", "fails"})
      BY <1>5, <1>t DEF Enqueue, Owns, RequestsAreTyped, RequestsAreSound, Goes, Becomes
    <2>2. Returned(r, n) /\ HeldByOne' /\ setting' \in [Connection -> Organisation \cup {NoTenant}]
      BY <1>5, <1>t, <2>1, GiveBackEffect DEF Enqueue
    <2>3. RequestsAreTyped'
      BY <1>5, <1>t, <2>2 DEF Enqueue, RequestsAreTyped, AtWork
    <2>4. RequestsAreSound'
      BY <1>t, <2>1 DEF RequestsAreSound, Goes, Becomes
    <2>5. OneOfEach'
      BY <1>t, <2>2 DEF OneOfEach, Returned
    <2>6. \A o \in Connection : holder[o] = {r} /\ o # n => PoolOf[o] # QueuePool
      BY <1>t, <2>1 DEF OneOfEach
    <2>7. HoldersAreAtWork'
      <3>1. \A o \in Connection, q \in Request : holder'[o] = {q} => holder[o] = {q} /\ o # n
        BY <2>2 DEF Returned
      <3>2. \A o \in Connection : holder'[o] = {r} =>
              /\ PoolOf[o] # QueuePool /\ PoolOf[o] = DatabaseOf(request'[r].kind)
              /\ request'[r].at \in AtWork
        BY <1>t, <2>1, <2>6, <3>1 DEF HoldersAreAtWork, AtWork, Goes, Becomes, DatabaseOf, QueuePool
      <3>3. \A q \in Request : q # r => request'[q] = request[q]
        BY <2>1 DEF Goes, Becomes
      <3> QED BY <1>t, <3>1, <3>2, <3>3, HoldersElsewhere
    <2>8. SettingsAreOwn'
      BY <1>t, <2>1, <2>2, <2>6 DEF SettingsAreOwn, Returned, Goes, Becomes
    <2> QED BY <2>2, <2>3, <2>4, <2>5, <2>7, <2>8 DEF ConnectionsInv
  <1>6. ASSUME NEW r \in Request, NEW n \in Connection, NEW commits \in BOOLEAN, End(r, n, commits)
        PROVE ConnectionsInv'
    <2>1. /\ request[r].at \in {"works", "fails"}
          /\ holder[n] = {r} /\ PoolOf[n] = DatabaseOf(request[r].kind)
          /\ Goes(r, {"done"})
      BY <1>6, <1>t DEF End, Owns, RequestsAreTyped, Goes, Becomes
    <2>2. Returned(r, n) /\ HeldByOne' /\ setting' \in [Connection -> Organisation \cup {NoTenant}]
      BY <1>6, <1>t, <2>1, GiveBackEffect DEF End
    <2>3. RequestsAreTyped'
      BY <1>6, <1>t, <2>2 DEF End, RequestsAreTyped
    <2>4. RequestsAreSound'
      BY <1>t, <2>1 DEF RequestsAreSound, Goes, Becomes
    <2>5. OneOfEach'
      BY <1>t, <2>2 DEF OneOfEach, Returned
    <2>6. \A o \in Connection : holder[o] = {r} => o = n
      BY <1>t, <2>1 DEF HoldersAreAtWork, OneOfEach
    <2>7. \A o \in Connection : holder'[o] # {r}
      BY <2>2, <2>6 DEF Returned
    <2>8. HoldersAreAtWork'
      BY <1>t, <2>1, <2>2, <2>7 DEF HoldersAreAtWork, Returned, Goes, Becomes
    <2>9. SettingsAreOwn'
      BY <1>t, <2>1, <2>2, <2>7 DEF SettingsAreOwn, Returned, Goes, Becomes
    <2> QED BY <2>2, <2>3, <2>4, <2>5, <2>8, <2>9 DEF ConnectionsInv
  <1>7. CASE UNCHANGED connectionVars
    <2>1. RequestsAreTyped' /\ HeldByOne' /\ RequestsAreSound'
      BY <1>7, <1>t DEF connectionVars, RequestsAreTyped, HeldByOne, RequestsAreSound
    <2>2. HoldersAreAtWork' /\ OneOfEach' /\ SettingsAreOwn'
      BY <1>7, <1>t DEF connectionVars, HoldersAreAtWork, OneOfEach, SettingsAreOwn
    <2> QED BY <2>1, <2>2 DEF ConnectionsInv
  <1> QED BY <1>1, <1>2, <1>3, <1>4, <1>5, <1>6, <1>7 DEF ConnectionsNext, RequestKind

(* A connection is handed to one request at a time (sql-database.ts, connect and release). *)
THEOREM ConnectionsTypeCorrect == ConnectionsSpec => []ConnectionsTypeOK
  <1>1. ConnectionsInv => ConnectionsTypeOK
    <2> SUFFICES ASSUME ConnectionsInv PROVE ConnectionsTypeOK
      OBVIOUS
    <2>1. ASSUME NEW n \in Connection PROVE Cardinality(holder[n]) <= 1
      <3>1. holder[n] = {} \/ \E r \in Request : holder[n] = {r}
        BY DEF ConnectionsInv, HeldByOne
      <3> QED BY <3>1, FS_EmptySet, FS_Singleton
    <2> QED BY <2>1 DEF ConnectionsInv, RequestsAreTyped, ConnectionsTypeOK
  <1> QED
    BY <1>1, ConnectionsInvInit, ConnectionsInvNext, PTL DEF ConnectionsSpec

(* What a request reads and writes is its own tenant's, and nobody's when it is
   for none, whoever had the connection before (withTenantTransaction,
   readWithoutTenantContext): for any number of requests, tenants and connections. *)
THEOREM WorksOnItsOwnHolds == ConnectionsSpec => []WorksOnItsOwn
  <1>1. ConnectionsInv => WorksOnItsOwn
    BY DEF ConnectionsInv, SettingsAreOwn, WorksOnItsOwn, Owns, DatabaseOf, QueuePool
  <1> QED BY <1>1, ConnectionsInvInit, ConnectionsInvNext, PTL DEF ConnectionsSpec

(* The requests of an API process never all wait for each other: the connection
   somebody waits for is free, or its holder can go on, or its holder waits for
   the queue, whose pool is its own, and whose holders wait for nobody.          *)
THEOREM SomebodyGoesOnHolds == ConnectionsSpec => []SomebodyGoesOn
  <1>1. ConnectionsInv => SomebodyGoesOn
    <2> SUFFICES ASSUME ConnectionsInv, NEW q \in Request, request[q].at \in {"waits", "waits for queue"}
                 PROVE  SomebodyGoesOn
      BY DEF SomebodyGoesOn
    <2>1. \A n \in Connection : holder[n] # {} => \E r \in Request : holder[n] = {r}
      BY DEF ConnectionsInv, HeldByOne
    <2>2. ASSUME NEW r \in Request, request[r].at = "waits for queue" PROVE SomebodyGoesOn
      <3>1. PICK n \in Connection : PoolOf[n] = QueuePool
        BY ConnectionsAssumption DEF QueuePool
      <3>2. CASE holder[n] = {}
        BY <2>2, <3>1, <3>2 DEF SomebodyGoesOn
      <3>3. ASSUME NEW o \in Request, holder[n] = {o} PROVE SomebodyGoesOn
        BY <3>1, <3>3 DEF SomebodyGoesOn, ConnectionsInv, HoldersAreAtWork
      <3> QED BY <2>1, <3>2, <3>3
    <2>3. CASE request[q].at = "waits"
      <3>1. PICK n \in Connection : PoolOf[n] = DatabaseOf(request[q].kind)
        BY ConnectionsAssumption DEF DatabaseOf
      <3>2. CASE holder[n] = {}
        BY <2>3, <3>1, <3>2 DEF SomebodyGoesOn
      <3>3. ASSUME NEW o \in Request, holder[n] = {o} PROVE SomebodyGoesOn
        <4>1. request[o].at \in {"begun", "works", "enqueues", "fails"} \/ request[o].at = "waits for queue"
          BY <3>1, <3>3 DEF ConnectionsInv, HoldersAreAtWork, AtWork, DatabaseOf, QueuePool
        <4> QED BY <2>2, <4>1 DEF SomebodyGoesOn
      <3> QED BY <2>1, <3>2, <3>3
    <2> QED BY <2>2, <2>3
  <1> QED BY <1>1, ConnectionsInvInit, ConnectionsInvNext, PTL DEF ConnectionsSpec

---------------------------------------------------------------------------------
(* Objects.  What a call of the adapter is about. *)
StoredKey == KeptKey \cup SourceKey

CallType == [at : {"free", "bucket", "ask", "wait", "send", "compare"}, key : StoredKey \cup {Nothing},
             content : Content \cup {Nothing}]

StorageIsTyped ==
  /\ bucket \subseteq Bucket /\ lates \in 0..MaxLate
  /\ memo \in [Bucket -> {"unknown", "asking", "confirmed"}]
  /\ object \in [StoredKey -> [content : Content \cup {Nothing}, told : BOOLEAN]]
  /\ putter \in [Putter -> CallType]
  /\ late \subseteq KeptKey \X Content /\ answered \subseteq KeptKey \X Content

(* A call has a key until it ends, and contents when the key is written once. *)
CallsAreSound ==
  \A c \in Putter :
    /\ putter[c].at # "free" => putter[c].key \in StoredKey
    /\ putter[c].at # "free" /\ putter[c].key \in KeptKey => putter[c].content \in Content
    /\ putter[c].at = "compare" => putter[c].key \in KeptKey

AnsweredIsThere ==
  \A k \in KeptKey, d \in Content : <<k, d>> \in answered => object[k].content = d

(* What is remembered of a bucket: somebody asks for it while it says so, those
   who wait wait for that, and it exists once it was confirmed.                  *)
BucketOf(c) == ResolveBucket(putter[c].key)

MemoIsTrue ==
  /\ \A b \in Bucket : /\ memo[b] = "confirmed" => b \in bucket
                       /\ memo[b] = "asking" => \E x \in Putter : putter[x].at = "ask" /\ BucketOf(x) = b
  /\ \A c \in Putter : /\ putter[c].at = "send" => BucketOf(c) \in bucket
                       /\ putter[c].at = "wait" => memo[BucketOf(c)] = "asking"

StorageInv == StorageIsTyped /\ CallsAreSound /\ AnsweredIsThere /\ MemoIsTrue

LEMMA BucketIsOne == \A key : ResolveBucket(key) \in Bucket
  BY DEF ResolveBucket, Bucket

LEMMA StorageInvInit == StorageInit => StorageInv
  <1> SUFFICES ASSUME StorageInit PROVE StorageInv
    OBVIOUS
  <1>1. StorageIsTyped
    <2>1. NoObject \in [content : Content \cup {Nothing}, told : BOOLEAN] /\ Free \in CallType
      BY DEF NoObject, Free, CallType
    <2>2. bucket \subseteq Bucket /\ lates \in 0..MaxLate
      <3>1. (bucket = {} \/ bucket = Bucket) /\ lates = 0
        BY DEF StorageInit
      <3> QED BY <3>1, ObjectStorageAssumption
    <2> QED BY <2>1, <2>2 DEF StorageInit, StorageIsTyped, StoredKey
  <1>2. \A c \in Putter : putter[c].at = "free"
    BY DEF StorageInit, Free
  <1>3. CallsAreSound /\ AnsweredIsThere /\ MemoIsTrue
    BY <1>2 DEF StorageInit, CallsAreSound, AnsweredIsThere, MemoIsTrue
  <1> QED BY <1>1, <1>3 DEF StorageInv

(* A call that is about a bucket that was not there does not touch the objects,
   and one about an object does not touch the buckets.                           *)
LEMMA ObjectsKept ==
  ASSUME AnsweredIsThere, UNCHANGED <<object, answered>>
  PROVE  AnsweredIsThere'
  BY DEF AnsweredIsThere

(* The step of one call, to a place where nobody waits for it or waits. *)
LEMMA MemoKept ==
  ASSUME MemoIsTrue, NEW c \in Putter, UNCHANGED <<bucket, memo>>,
         \A x \in Putter : x # c => putter'[x] = putter[x],
         putter[c].at # "ask", putter'[c].at \notin {"send", "wait"}
  PROVE  MemoIsTrue'
  BY DEF MemoIsTrue, BucketOf

(* A key that is written once is written when there is nothing under it. *)
LEMMA WriteOnceEffect ==
  ASSUME StorageIsTyped, AnsweredIsThere, NEW key \in KeptKey, NEW content \in Content, WriteOnce(key, content)
  PROVE  /\ object' \in [StoredKey -> [content : Content \cup {Nothing}, told : BOOLEAN]]
         /\ \A k \in KeptKey, d \in Content : <<k, d>> \in answered => object'[k].content = d
         /\ object[key] = NoObject => object'[key].content = content
  <1>0. key \in StoredKey /\ Nothing \notin Content
    BY ObjectStorageAssumption DEF StoredKey
  <1>1. CASE object[key] = NoObject
    <2>1. object' = [object EXCEPT ![key] = [content |-> content, told |-> backend = "s3"]]
      BY <1>1 DEF WriteOnce
    <2>2. (backend = "s3") \in BOOLEAN
      BY Zenon
    <2>3. object' \in [StoredKey -> [content : Content \cup {Nothing}, told : BOOLEAN]]
      BY <1>0, <2>1, <2>2 DEF StorageIsTyped
    <2>4. object'[key].content = content /\ \A k \in StoredKey : k # key => object'[k] = object[k]
      BY <1>0, <2>1 DEF StorageIsTyped
    <2>5. \A d \in Content : <<key, d>> \notin answered
      BY <1>0, <1>1 DEF AnsweredIsThere, NoObject
    <2> QED BY <2>3, <2>4, <2>5 DEF AnsweredIsThere, StoredKey
  <1>2. CASE object[key] # NoObject
    BY <1>2 DEF WriteOnce, StorageIsTyped, AnsweredIsThere
  <1> QED BY <1>1, <1>2

(* What the step of a call does to the calls. *)
Leaves(c) == putter' = [putter EXCEPT ![c] = Free]

LEMMA LeavesEffect ==
  ASSUME StorageIsTyped, CallsAreSound, NEW c \in Putter, Leaves(c)
  PROVE  /\ putter' \in [Putter -> CallType] /\ CallsAreSound' /\ putter'[c].at = "free"
         /\ \A x \in Putter : x # c => putter'[x] = putter[x]
  <1>1. Free \in CallType /\ Free.at = "free"
    BY DEF Free, CallType
  <1>2. /\ putter' \in [Putter -> CallType] /\ putter'[c].at = "free"
        /\ \A x \in Putter : x # c => putter'[x] = putter[x]
    BY <1>1 DEF Leaves, StorageIsTyped
  <1>3. CallsAreSound'
    BY <1>2 DEF CallsAreSound
  <1> QED BY <1>2, <1>3

LEMMA GoesEffect ==
  ASSUME StorageIsTyped, CallsAreSound, NEW c \in Putter, NEW place \in {"ask", "wait", "send", "compare"},
         putter[c].at # "free", place = "compare" => putter[c].key \in KeptKey,
         putter' = [putter EXCEPT ![c].at = place]
  PROVE  /\ putter' \in [Putter -> CallType] /\ CallsAreSound'
         /\ putter'[c].at = place /\ putter'[c].key = putter[c].key
         /\ \A x \in Putter : x # c => putter'[x] = putter[x]
  <1>1. /\ putter' \in [Putter -> CallType] /\ putter'[c].at = place
        /\ putter'[c].key = putter[c].key /\ putter'[c].content = putter[c].content
        /\ \A x \in Putter : x # c => putter'[x] = putter[x]
    BY DEF StorageIsTyped, CallType
  <1>2. CallsAreSound'
    BY <1>1 DEF CallsAreSound
  <1> QED BY <1>1, <1>2

LEMMA CallStep ==
  ASSUME StorageInv, NEW c \in Putter, NEW key \in StoredKey, NEW content \in Content \cup {Nothing},
         key \in KeptKey => content \in Content, Call(c, key, content)
  PROVE  StorageInv'
  <1>t. StorageIsTyped /\ CallsAreSound /\ AnsweredIsThere /\ MemoIsTrue
    BY DEF StorageInv
  <1>1. putter[c].at = "free"
    BY DEF Call, Free
  <1>2. /\ putter'[c] = [at |-> "bucket", key |-> key, content |-> content]
        /\ \A x \in Putter : x # c => putter'[x] = putter[x]
        /\ putter' \in [Putter -> CallType]
    BY <1>t DEF Call, StorageIsTyped, CallType
  <1>3. putter'[c].at = "bucket" /\ putter'[c].key = key /\ putter'[c].content = content
    BY <1>2
  <1>4. StorageIsTyped'
    BY <1>t, <1>2 DEF Call, StorageIsTyped
  <1>5. CallsAreSound'
    BY <1>t, <1>2, <1>3 DEF CallsAreSound
  <1>6. AnsweredIsThere'
    BY <1>t, ObjectsKept DEF Call
  <1>7. MemoIsTrue'
    BY <1>t, <1>1, <1>2, <1>3, MemoKept DEF Call
  <1> QED BY <1>4, <1>5, <1>6, <1>7 DEF StorageInv

LEMMA EnsureBucketStep ==
  ASSUME StorageInv, NEW c \in Putter, EnsureBucket(c)
  PROVE  StorageInv'
  <1>t. StorageIsTyped /\ CallsAreSound /\ AnsweredIsThere /\ MemoIsTrue
    BY DEF StorageInv
  <1> DEFINE b == BucketOf(c)
  <1>0. /\ b \in Bucket /\ putter[c].at = "bucket"
        /\ UNCHANGED <<backend, bucket, object, signedUrl, late, lates, answered>>
        /\ \/ memo[b] = "confirmed" /\ putter' = [putter EXCEPT ![c].at = "send"] /\ UNCHANGED memo
           \/ memo[b] = "asking" /\ putter' = [putter EXCEPT ![c].at = "wait"] /\ UNCHANGED memo
           \/ /\ memo[b] = "unknown" /\ memo' = [memo EXCEPT ![b] = "asking"]
              /\ putter' = [putter EXCEPT ![c].at = "ask"]
    BY BucketIsOne DEF EnsureBucket, BucketOf
  <1> HIDE DEF b
  <1>1. PICK place \in {"ask", "wait", "send"} : putter' = [putter EXCEPT ![c].at = place]
    BY <1>0
  <1>2. /\ putter' \in [Putter -> CallType] /\ CallsAreSound'
        /\ putter'[c].at = place /\ putter'[c].key = putter[c].key
        /\ \A x \in Putter : x # c => putter'[x] = putter[x]
    BY <1>t, <1>0, <1>1, GoesEffect
  <1>3. memo' \in [Bucket -> {"unknown", "asking", "confirmed"}]
    BY <1>t, <1>0 DEF StorageIsTyped
  <1>4. StorageIsTyped'
    BY <1>t, <1>0, <1>2, <1>3 DEF StorageIsTyped
  <1>5. AnsweredIsThere'
    BY <1>t, <1>0, ObjectsKept
  <1>6. MemoIsTrue'
    <2>1. /\ \A x \in Putter : BucketOf(x)' = BucketOf(x)
          /\ \A x \in Putter : x # c => putter'[x].at = putter[x].at
          /\ BucketOf(c) = b
      BY <1>2 DEF BucketOf, b
    <2>2. CASE memo[b] = "unknown"
      <3>1. memo' = [memo EXCEPT ![b] = "asking"] /\ putter'[c].at = "ask"
        BY <1>0, <1>1, <1>2, <2>2, <1>t DEF StorageIsTyped, CallType
      <3> QED BY <1>t, <1>0, <2>1, <2>2, <3>1 DEF MemoIsTrue, StorageIsTyped
    <2>3. CASE memo[b] # "unknown"
      <3>1. UNCHANGED memo /\ putter'[c].at = IF memo[b] = "confirmed" THEN "send" ELSE "wait"
        BY <1>0, <2>3, <1>t DEF StorageIsTyped, CallType
      <3>2. memo[b] \in {"confirmed", "asking"}
        BY <1>0, <2>3
      <3> QED BY <1>t, <1>0, <2>1, <3>1, <3>2 DEF MemoIsTrue
    <2> QED BY <2>2, <2>3
  <1> QED BY <1>2, <1>4, <1>5, <1>6 DEF StorageInv

LEMMA ConfirmPrivateBucketStep ==
  ASSUME StorageInv, NEW c \in Putter, NEW succeeds \in BOOLEAN, ConfirmPrivateBucket(c, succeeds)
  PROVE  StorageInv'
  <1>t. StorageIsTyped /\ CallsAreSound /\ AnsweredIsThere /\ MemoIsTrue
    BY DEF StorageInv
  <1> DEFINE b == BucketOf(c)
             Concerned(x) == x = c \/ (putter[x].at = "wait" /\ BucketOf(x) = b)
  <1>0. /\ b \in Bucket /\ putter[c].at = "ask"
        /\ UNCHANGED <<backend, object, signedUrl, late, lates, answered>>
        /\ bucket' = IF succeeds THEN bucket \cup {b} ELSE bucket
        /\ memo' = [memo EXCEPT ![b] = IF succeeds THEN "confirmed" ELSE "unknown"]
    BY BucketIsOne DEF ConfirmPrivateBucket, BucketOf
  <1>1. putter' = [x \in Putter |-> IF ~Concerned(x) THEN putter[x]
                                    ELSE IF succeeds THEN [putter[x] EXCEPT !.at = "send"] ELSE Free]
    BY DEF ConfirmPrivateBucket, BucketOf
  <1>2. \A x \in Putter : /\ putter'[x] \in CallType
                          /\ ~Concerned(x) => putter'[x] = putter[x]
                          /\ Concerned(x) /\ ~succeeds => putter'[x].at = "free"
                          /\ Concerned(x) /\ succeeds => /\ putter'[x].at = "send"
                                                         /\ putter'[x].key = putter[x].key
                                                         /\ putter'[x].content = putter[x].content
    <2>1. Free \in CallType /\ Free.at = "free"
      BY DEF Free, CallType
    <2> SUFFICES ASSUME NEW x \in Putter
                 PROVE  /\ putter'[x] \in CallType
                        /\ ~Concerned(x) => putter'[x] = putter[x]
                        /\ Concerned(x) /\ ~succeeds => putter'[x].at = "free"
                        /\ Concerned(x) /\ succeeds => /\ putter'[x].at = "send"
                                                       /\ putter'[x].key = putter[x].key
                                                       /\ putter'[x].content = putter[x].content
      OBVIOUS
    <2> DEFINE before == putter[x]
    <2>2. before \in CallType
      BY <1>t DEF StorageIsTyped
    <2>3. putter'[x] = IF ~Concerned(x) THEN before
                       ELSE IF succeeds THEN [before EXCEPT !.at = "send"] ELSE Free
      BY <1>1
    <2> HIDE DEF before, Concerned
    <2>4. /\ putter'[x] \in CallType
          /\ ~Concerned(x) => putter'[x] = before
          /\ Concerned(x) /\ ~succeeds => putter'[x].at = "free"
          /\ Concerned(x) /\ succeeds => /\ putter'[x].at = "send"
                                         /\ putter'[x].key = before.key
                                         /\ putter'[x].content = before.content
      BY <2>1, <2>2, <2>3 DEF CallType
    <2> QED BY <2>4 DEF before
  <1>3. StorageIsTyped'
    <2>1. putter' \in [Putter -> CallType]
      BY <1>1, <1>2
    <2> QED BY <1>t, <1>0, <2>1 DEF StorageIsTyped
  <1>4. CallsAreSound'
    <2>1. \A x \in Putter : Concerned(x) => putter[x].at # "free"
      BY <1>0
    <2> HIDE DEF Concerned
    <2> QED BY <1>t, <1>2, <2>1 DEF CallsAreSound
  <1>5. AnsweredIsThere'
    BY <1>t, <1>0, ObjectsKept
  <1>6. MemoIsTrue'
    <2>1. \A x \in Putter : Concerned(x) => BucketOf(x) = b
      OBVIOUS
    <2>2. \A x \in Putter : ~Concerned(x) /\ putter[x].at = "wait" => BucketOf(x) # b
      OBVIOUS
    <2>3. \A x \in Putter : ~Concerned(x) \/ succeeds => BucketOf(x)' = BucketOf(x)
      BY <1>2 DEF BucketOf
    <2>4. ASSUME NEW a \in Bucket PROVE /\ memo'[a] = "confirmed" => a \in bucket'
                                        /\ memo'[a] = "asking" => \E x \in Putter : putter'[x].at = "ask" /\ BucketOf(x)' = a
      <3>1. CASE a = b
        BY <1>t, <1>0, <3>1 DEF StorageIsTyped, MemoIsTrue
      <3>2. CASE a # b
        <4>1. memo'[a] = memo[a] /\ bucket \subseteq bucket'
          BY <1>t, <1>0, <3>2 DEF StorageIsTyped
        <4>2. \A x \in Putter : BucketOf(x) = a => ~Concerned(x)
          BY <2>1, <3>2
        <4> HIDE DEF Concerned, b
        <4>3. \A x \in Putter : BucketOf(x) = a => putter'[x] = putter[x] /\ BucketOf(x)' = a
          BY <1>2, <2>3, <4>2
        <4> QED BY <1>t, <4>1, <4>3 DEF MemoIsTrue
      <3> QED BY <3>1, <3>2
    <2>5. ASSUME NEW x \in Putter PROVE /\ putter'[x].at = "send" => BucketOf(x)' \in bucket'
                                        /\ putter'[x].at = "wait" => memo'[BucketOf(x)'] = "asking"
      <3>1. CASE Concerned(x)
        <4>1. putter'[x].at = IF succeeds THEN "send" ELSE "free"
          BY <1>2, <3>1
        <4>2. succeeds => BucketOf(x)' = b /\ b \in bucket'
          BY <1>0, <2>1, <2>3, <3>1
        <4> QED BY <4>1, <4>2
      <3>2. CASE ~Concerned(x)
        <4>1. putter'[x] = putter[x] /\ BucketOf(x)' = BucketOf(x)
          BY <1>2, <2>3, <3>2
        <4>2. putter[x].at = "send" => BucketOf(x) \in bucket'
          BY <1>t, <1>0 DEF MemoIsTrue
        <4>3. putter[x].at = "wait" => memo'[BucketOf(x)] = memo[BucketOf(x)]
          BY <1>t, <1>0, <2>2, <3>2, BucketIsOne DEF StorageIsTyped, BucketOf
        <4> QED BY <1>t, <4>1, <4>2, <4>3 DEF MemoIsTrue
      <3> QED BY <3>1, <3>2
    <2> HIDE DEF b, Concerned
    <2> QED BY <2>4, <2>5 DEF MemoIsTrue
  <1> QED BY <1>3, <1>4, <1>5, <1>6 DEF StorageInv

(* The steps that leave the storage as it is, but for a call that ends. *)
LEMMA CallEnds ==
  ASSUME StorageInv, NEW c \in Putter, Leaves(c), putter[c].at # "ask", UNCHANGED <<bucket, memo>>,
         object' \in [StoredKey -> [content : Content \cup {Nothing}, told : BOOLEAN]],
         lates' \in 0..MaxLate, late' \subseteq KeptKey \X Content,
         answered' \subseteq KeptKey \X Content, AnsweredIsThere'
  PROVE  StorageInv'
  <1>t. StorageIsTyped /\ CallsAreSound /\ MemoIsTrue
    BY DEF StorageInv
  <1>1. /\ putter' \in [Putter -> CallType] /\ CallsAreSound' /\ putter'[c].at = "free"
        /\ \A x \in Putter : x # c => putter'[x] = putter[x]
    BY <1>t, LeavesEffect
  <1>2. StorageIsTyped'
    BY <1>t, <1>1 DEF StorageIsTyped
  <1>3. MemoIsTrue'
    BY <1>t, <1>1, MemoKept
  <1> QED BY <1>1, <1>2, <1>3 DEF StorageInv

LEMMA SendStep ==
  ASSUME StorageInv, NEW c \in Putter, Send(c)
  PROVE  StorageInv'
  <1>t. StorageIsTyped /\ CallsAreSound /\ AnsweredIsThere /\ MemoIsTrue
    BY DEF StorageInv
  <1> DEFINE key == putter[c].key
             content == putter[c].content
             stored == object[key] = NoObject
  <1>0. /\ putter[c].at = "send" /\ key \in KeptKey /\ content \in Content
        /\ WriteOnce(key, content)
        /\ UNCHANGED <<backend, bucket, memo, signedUrl, late, lates>>
    BY <1>t DEF Send, CallsAreSound
  <1>1. \/ stored /\ answered' = answered \cup {<<key, content>>} /\ Leaves(c)
        \/ UNCHANGED answered /\ Leaves(c)
        \/ UNCHANGED answered /\ putter' = [putter EXCEPT ![c].at = "compare"]
    BY DEF Send, Leaves
  <1> HIDE DEF key, content
  <1>2. /\ object' \in [StoredKey -> [content : Content \cup {Nothing}, told : BOOLEAN]]
        /\ \A k \in KeptKey, d \in Content : <<k, d>> \in answered => object'[k].content = d
        /\ stored => object'[key].content = content
    BY <1>t, <1>0, WriteOnceEffect
  <1>3. AnsweredIsThere' /\ answered' \subseteq KeptKey \X Content
    BY <1>t, <1>0, <1>1, <1>2 DEF AnsweredIsThere, StorageIsTyped
  <1>4. lates' \in 0..MaxLate /\ late' \subseteq KeptKey \X Content
    BY <1>t, <1>0 DEF StorageIsTyped
  <1>5. CASE Leaves(c)
    BY <1>0, <1>2, <1>3, <1>4, <1>5, CallEnds
  <1>6. CASE putter' = [putter EXCEPT ![c].at = "compare"]
    <2>1. /\ putter' \in [Putter -> CallType] /\ CallsAreSound' /\ putter'[c].at = "compare"
          /\ \A x \in Putter : x # c => putter'[x] = putter[x]
      BY <1>t, <1>0, <1>6, GoesEffect DEF key
    <2>2. StorageIsTyped'
      BY <1>t, <1>0, <1>2, <1>3, <2>1 DEF StorageIsTyped
    <2>3. MemoIsTrue'
      BY <1>t, <1>0, <2>1, MemoKept
    <2> QED BY <1>3, <2>1, <2>2, <2>3 DEF StorageInv
  <1> QED BY <1>1, <1>5, <1>6

LEMMA StoredDigestStep ==
  ASSUME StorageInv, NEW c \in Putter, StoredDigest(c)
  PROVE  StorageInv'
  <1>t. StorageIsTyped /\ CallsAreSound /\ AnsweredIsThere
    BY DEF StorageInv
  <1> DEFINE key == putter[c].key
             content == putter[c].content
  <1>0. putter[c].at = "compare" /\ key \in KeptKey /\ content \in Content
    BY <1>t DEF StoredDigest, CallsAreSound
  <1>1. /\ \/ answered' = answered
           \/ answered' = answered \cup {<<key, content>>} /\ object[key].content = content
        /\ Leaves(c) /\ UNCHANGED <<backend, bucket, memo, object, signedUrl, late, lates>>
    BY DEF StoredDigest, Leaves
  <1> HIDE DEF key, content
  <1>2. AnsweredIsThere' /\ answered' \subseteq KeptKey \X Content
    BY <1>t, <1>0, <1>1 DEF AnsweredIsThere, StorageIsTyped
  <1>3. /\ object' \in [StoredKey -> [content : Content \cup {Nothing}, told : BOOLEAN]]
        /\ lates' \in 0..MaxLate /\ late' \subseteq KeptKey \X Content
    BY <1>t, <1>1 DEF StorageIsTyped
  <1> QED BY <1>0, <1>1, <1>2, <1>3, CallEnds

LEMMA StorageInvNext == StorageInv /\ [StorageNext]_storageVars => StorageInv'
  <1> SUFFICES ASSUME StorageInv, [StorageNext]_storageVars PROVE StorageInv'
    OBVIOUS
  <1>t. StorageIsTyped /\ CallsAreSound /\ AnsweredIsThere /\ MemoIsTrue
    BY DEF StorageInv
  <1>a. KeptKey \subseteq StoredKey /\ SourceKey \subseteq StoredKey /\ KeptKey \cap SourceKey = {}
    BY ObjectStorageAssumption DEF StoredKey
  <1>1. ASSUME NEW c \in Putter, NEW k \in KeptKey, NEW content \in Content, PutObject(c, k, content)
        PROVE StorageInv'
    BY <1>1, <1>a, CallStep DEF PutObject
  <1>2. ASSUME NEW c \in Putter, NEW k \in SourceKey, CreateUploadGrant(c, k) PROVE StorageInv'
    <2>1. k \in StoredKey /\ k \notin KeptKey
      BY <1>a
    <2> QED BY <1>2, <2>1, CallStep DEF CreateUploadGrant
  <1>3. ASSUME NEW c \in Putter, PresignPut(c) \/ GiveUp(c) PROVE StorageInv'
    <2>1. Leaves(c) /\ putter[c].at = "send" /\ UNCHANGED <<bucket, memo, object, answered>>
      BY <1>3 DEF PresignPut, GiveUp, Leaves
    <2>2. lates' \in 0..MaxLate /\ late' \subseteq KeptKey \X Content
      <3>1. CASE PresignPut(c)
        BY <3>1, <1>t DEF PresignPut, StorageIsTyped
      <3>2. CASE GiveUp(c)
        <4>1. putter[c].key \in KeptKey /\ putter[c].content \in Content
          BY <3>2, <1>t DEF GiveUp, CallsAreSound
        <4> QED BY <3>2, <4>1, <1>t, ObjectStorageAssumption DEF GiveUp, StorageIsTyped
      <3> QED BY <1>3, <3>1, <3>2
    <2>3. /\ object' \in [StoredKey -> [content : Content \cup {Nothing}, told : BOOLEAN]]
          /\ answered' \subseteq KeptKey \X Content /\ AnsweredIsThere'
      BY <1>t, <2>1, ObjectsKept DEF StorageIsTyped
    <2> QED BY <2>1, <2>2, <2>3, CallEnds
  <1>4. ASSUME NEW r \in late, CarriedOutLate(r) PROVE StorageInv'
    <2>1. PICK k \in KeptKey, d \in Content : r = <<k, d>>
      BY <1>t DEF StorageIsTyped
    <2>2. WriteOnce(k, d)
      BY <1>4, <2>1 DEF CarriedOutLate
    <2>3. /\ object' \in [StoredKey -> [content : Content \cup {Nothing}, told : BOOLEAN]]
          /\ AnsweredIsThere'
      BY <1>t, <1>4, <2>2, WriteOnceEffect DEF CarriedOutLate, AnsweredIsThere
    <2>4. StorageIsTyped' /\ CallsAreSound' /\ MemoIsTrue'
      BY <1>t, <1>4, <2>3 DEF CarriedOutLate, StorageIsTyped, CallsAreSound, MemoIsTrue, BucketOf
    <2> QED BY <2>3, <2>4 DEF StorageInv
  <1>5. ASSUME NEW k \in SourceKey, LinkRunsOut(k) PROVE StorageInv'
    BY <1>5, <1>t DEF LinkRunsOut, StorageInv, StorageIsTyped, CallsAreSound, AnsweredIsThere, MemoIsTrue, BucketOf
  <1>6. ASSUME NEW k \in SourceKey, NEW content \in Content, Upload(k, content) PROVE StorageInv'
    <2>1. /\ \A q \in KeptKey : object'[q] = object[q]
          /\ object' \in [StoredKey -> [content : Content \cup {Nothing}, told : BOOLEAN]]
          /\ UNCHANGED <<bucket, memo, putter, late, lates, answered>>
      BY <1>6, <1>t, <1>a DEF Upload, StorageIsTyped
    <2>2. AnsweredIsThere'
      BY <1>t, <2>1 DEF AnsweredIsThere
    <2> QED BY <1>t, <2>1, <2>2 DEF StorageInv, StorageIsTyped, CallsAreSound, MemoIsTrue, BucketOf
  <1>7. ASSUME NEW k \in StoredKey, DeleteObject(k) PROVE StorageInv'
    <2>1. /\ \A q \in StoredKey : q # k => object'[q] = object[q]
          /\ object' \in [StoredKey -> [content : Content \cup {Nothing}, told : BOOLEAN]]
          /\ UNCHANGED <<bucket, memo, putter, late, lates>>
      BY <1>7, <1>t DEF DeleteObject, StorageIsTyped, NoObject
    <2>2. /\ answered' \subseteq answered
          /\ \A q \in KeptKey, d \in Content : <<q, d>> \in answered' => q # k
      BY <1>7 DEF DeleteObject
    <2>3. AnsweredIsThere'
      BY <1>t, <1>a, <2>1, <2>2 DEF AnsweredIsThere
    <2> QED BY <1>t, <2>1, <2>2, <2>3 DEF StorageInv, StorageIsTyped, CallsAreSound, MemoIsTrue, BucketOf
  <1>8. CASE UNCHANGED storageVars
    BY <1>8, <1>t
       DEF storageVars, StorageInv, StorageIsTyped, CallsAreSound, AnsweredIsThere, MemoIsTrue, BucketOf
  <1> QED BY <1>1, <1>2, <1>3, <1>4, <1>5, <1>6, <1>7, <1>8,
             EnsureBucketStep, ConfirmPrivateBucketStep, SendStep, StoredDigestStep DEF StorageNext, StoredKey

(* Objects, the bucket memo and the calls keep their types (s3-object-storage.ts). *)
THEOREM StorageTypeCorrect == StorageSpec => []StorageTypeOK
  <1>1. StorageInv => StorageTypeOK
    BY DEF StorageInv, StorageIsTyped, StorageTypeOK, CallType
  <1> QED
    BY <1>1, StorageInvInit, StorageInvNext, PTL DEF StorageSpec

(* What the caller of an immutable put was told is stored is stored until it is
   deleted, in a bucket that exists, and who waits for a bucket waits for somebody
   who asks for it: for any number of callers, keys, contents and late requests
   (putObject, createBucketMemo).                                                *)
THEOREM AnsweredPutIsStoredHolds == StorageSpec => []AnsweredPutIsStored
  <1>1. StorageInv => AnsweredPutIsStored
    <2> SUFFICES ASSUME StorageInv PROVE AnsweredPutIsStored
      OBVIOUS
    <2>1. \A a \in answered : object[a[1]].content = a[2]
      BY DEF StorageInv, StorageIsTyped, AnsweredIsThere
    <2>2. \A c \in Putter : putter[c].at = "send" => ResolveBucket(putter[c].key) \in bucket
      BY DEF StorageInv, MemoIsTrue, BucketOf
    <2>3. ASSUME NEW c \in Putter, putter[c].at = "wait"
          PROVE  \E x \in Putter : putter[x].at = "ask" /\ ResolveBucket(putter[x].key) = ResolveBucket(putter[c].key)
      BY <2>3, BucketIsOne DEF StorageInv, MemoIsTrue, BucketOf
    <2> QED BY <2>1, <2>2, <2>3 DEF AnsweredPutIsStored
  <1> QED BY <1>1, StorageInvInit, StorageInvNext, PTL DEF StorageSpec

---------------------------------------------------------------------------------
(* Webhooks.  The type of a behaviour, step by step. *)
LEMMA WebhookTypeInit == WebhookInit => WebhookTypeOK
  <1> SUFFICES ASSUME WebhookInit PROVE WebhookTypeOK
    OBVIOUS
  <1> USE WebhookAssumption DEF WebhookInit
  <1>1. occurred \in BOOLEAN /\ published \in BOOLEAN /\ outstanding \in [Handler -> BOOLEAN]
    BY Zenon
  <1>2. /\ registered \subseteq Endpoint /\ delivery \in [Endpoint -> DeliveryStatus]
        /\ accepted \in [Endpoint -> Nat] /\ trouble \in 0..MaxTrouble
        /\ unsigned \in [WebhookJob -> Endpoint \cup {Nobody}]
    BY DEF DeliveryStatus
  <1>3. /\ queue \in [WebhookJob -> {"absent", "ready", "running", "done", "dead", "stranded"}]
        /\ tries \in [WebhookJob -> 0..WebhookAttempts]
    OBVIOUS
  <1>4. /\ handling \in [Handler -> WebhookJob \cup {Nobody}] /\ attempt \in [Handler -> 0..WebhookAttempts]
        /\ todo \in [Handler -> SUBSET Endpoint] /\ at \in [Handler -> Endpoint \cup {Nobody}]
        /\ answer \in [Handler -> Answer]
    BY DEF Answer
  <1> QED BY <1>1, <1>2, <1>3, <1>4 DEF WebhookTypeOK

LEMMA LeaveTyped ==
  ASSUME WebhookTypeOK, NEW h \in Handler, Leave(h)
  PROVE  /\ handling' \in [Handler -> WebhookJob \cup {Nobody}] /\ attempt' \in [Handler -> 0..WebhookAttempts]
         /\ todo' \in [Handler -> SUBSET Endpoint] /\ at' \in [Handler -> Endpoint \cup {Nobody}]
         /\ answer' \in [Handler -> Answer] /\ outstanding' \in [Handler -> BOOLEAN]
  <1>1. outstanding' \in [Handler -> BOOLEAN]
    BY Zenon DEF WebhookTypeOK, Leave
  <1> QED BY <1>1, WebhookAssumption DEF WebhookTypeOK, Leave, Answer

LEMMA SettledTyped ==
  ASSUME WebhookTypeOK, NEW h \in Handler, handling[h] # Nobody,
         NEW to \in {"ready", "done", "dead", "stranded"}, Settled(h, to)
  PROVE  queue' \in [WebhookJob -> {"absent", "ready", "running", "done", "dead", "stranded"}]
  BY DEF WebhookTypeOK, Settled

(* What a handler that throws leaves behind. *)
LEMMA ThrowsTyped ==
  ASSUME WebhookTypeOK, NEW h \in Handler, handling[h] # Nobody, Throws(h),
         UNCHANGED <<registered, occurred, delivery, published, accepted, tries>>,
         unsigned' \in [WebhookJob -> Endpoint \cup {Nobody}], trouble' \in 0..MaxTrouble
  PROVE  WebhookTypeOK'
  <1>1. queue' \in [WebhookJob -> {"absent", "ready", "running", "done", "dead", "stranded"}]
    BY SettledTyped DEF Throws
  <1> QED BY <1>1, LeaveTyped DEF Throws, WebhookTypeOK

LEMMA WebhookTypeNext == WebhookTypeOK /\ [WebhookNext]_webhookVars => WebhookTypeOK'
  <1> SUFFICES ASSUME WebhookTypeOK, [WebhookNext]_webhookVars PROVE WebhookTypeOK'
    OBVIOUS
  <1> USE WebhookAssumption
  <1>1. CASE EventOccurs
    <2>1. occurred' \in BOOLEAN
      BY <1>1, Zenon DEF EventOccurs
    <2> QED BY <1>1, <2>1 DEF EventOccurs, WebhookTypeOK, handlers
  <1>2. ASSUME NEW e \in Endpoint, CreateEndpoint(e) PROVE WebhookTypeOK'
    BY <1>2 DEF CreateEndpoint, WebhookTypeOK, handlers
  <1>3. ASSUME NEW e \in Endpoint, NEW j \in WebhookJob, ReplayDelivery(j, e) PROVE WebhookTypeOK'
    BY <1>3 DEF ReplayDelivery, WebhookTypeOK, handlers, DeliveryStatus
  <1>4. ASSUME NEW h \in Handler, NEW j \in WebhookJob, LoadEndpoints(h, j) PROVE WebhookTypeOK'
    <2>1. trouble' \in 0..MaxTrouble
      BY <1>4 DEF LoadEndpoints, WebhookTypeOK
    <2>2. tries' \in [WebhookJob -> 0..WebhookAttempts] /\ attempt' \in [Handler -> 0..WebhookAttempts]
      BY <1>4 DEF LoadEndpoints, WebhookTypeOK
    <2>3. outstanding' \in [Handler -> BOOLEAN]
      BY <1>4, Zenon DEF LoadEndpoints, WebhookTypeOK
    <2> QED BY <1>4, <2>1, <2>2, <2>3 DEF LoadEndpoints, WebhookTypeOK
  <1>5. ASSUME NEW h \in Handler, NEW e \in Endpoint, ClaimDelivery(h, e) PROVE WebhookTypeOK'
    BY <1>5 DEF ClaimDelivery, WebhookTypeOK, DeliveryStatus
  <1>6. ASSUME NEW h \in Handler, Deliver(h) PROVE WebhookTypeOK'
    <2>1. at[h] \in Endpoint
      BY <1>6 DEF Deliver, WebhookTypeOK
    <2>2. accepted' \in [Endpoint -> Nat] /\ trouble' \in 0..MaxTrouble /\ answer' \in [Handler -> Answer]
      BY <1>6, <2>1 DEF Deliver, WebhookTypeOK, Answer
    <2> QED BY <1>6, <2>2 DEF Deliver, WebhookTypeOK
  <1>7. ASSUME NEW h \in Handler, RecordOutcome(h) PROVE WebhookTypeOK'
    <2>1. outstanding' \in [Handler -> BOOLEAN]
      BY <1>7, Zenon DEF RecordOutcome, WebhookTypeOK
    <2>2. Outcome(h) \in DeliveryStatus
      BY DEF Outcome, DeliveryStatus
    <2>3. delivery' \in [Endpoint -> DeliveryStatus]
      BY <1>7, <2>2 DEF RecordOutcome, WebhookTypeOK
    <2> QED BY <1>7, <2>1, <2>3 DEF RecordOutcome, WebhookTypeOK, Answer
  <1>8. ASSUME NEW h \in Handler, HandlerThrows(h) \/ SigningThrows(h) \/ TransactionFails(h)
        PROVE  WebhookTypeOK'
    <2>1. CASE HandlerThrows(h)
      BY <2>1, ThrowsTyped DEF HandlerThrows, WebhookTypeOK
    <2>2. CASE SigningThrows(h)
      <3>1. handling[h] # Nobody /\ at[h] \in Endpoint
        BY <2>2 DEF SigningThrows, WebhookTypeOK
      <3>2. unsigned' \in [WebhookJob -> Endpoint \cup {Nobody}] /\ trouble' \in 0..MaxTrouble
        BY <2>2, <3>1 DEF SigningThrows, WebhookTypeOK
      <3> QED BY <2>2, <3>1, <3>2, ThrowsTyped DEF SigningThrows
    <2>3. CASE TransactionFails(h)
      <3>1. unsigned' \in [WebhookJob -> Endpoint \cup {Nobody}] /\ trouble' \in 0..MaxTrouble
        BY <2>3 DEF TransactionFails, WebhookTypeOK
      <3> QED BY <2>3, <3>1, ThrowsTyped DEF TransactionFails
    <2> QED BY <1>8, <2>1, <2>2, <2>3
  <1>9. ASSUME NEW h \in Handler, MarkPublished(h) PROVE WebhookTypeOK'
    <2>1. queue' \in [WebhookJob -> {"absent", "ready", "running", "done", "dead", "stranded"}]
      BY <1>9, SettledTyped DEF MarkPublished
    <2>2. published' \in BOOLEAN
      BY <1>9, Zenon DEF MarkPublished
    <2> QED BY <1>9, <2>1, <2>2, LeaveTyped DEF MarkPublished, WebhookTypeOK
  <1>10. ASSUME NEW h \in Handler, HandlerLost(h) PROVE WebhookTypeOK'
    <2>1. queue' \in [WebhookJob -> {"absent", "ready", "running", "done", "dead", "stranded"}]
      BY <1>10, SettledTyped DEF HandlerLost
    <2>2. trouble' \in 0..MaxTrouble
      BY <1>10 DEF HandlerLost, WebhookTypeOK
    <2> QED BY <1>10, <2>1, <2>2, LeaveTyped DEF HandlerLost, WebhookTypeOK
  <1>11. CASE UNCHANGED webhookVars
    BY <1>11 DEF webhookVars, handlers, WebhookTypeOK
  <1> QED BY <1>1, <1>2, <1>3, <1>4, <1>5, <1>6, <1>7, <1>8, <1>9, <1>10, <1>11 DEF WebhookNext, HandlerStep

(* Queue, deliveries and handlers keep their types; no job is tried more often than
   it may be (webhook-handlers.ts).                                              *)
THEOREM WebhookTypeCorrect == WebhookSpec => []WebhookTypeOK
  BY WebhookTypeInit, WebhookTypeNext, PTL DEF WebhookSpec

(* published_at is set only when every delivery begun so far is over, whoever
   began it (markPublished): for any number of endpoints, jobs and handlers.     *)
THEOREM PublishedWhenOverHolds == WebhookSpec => PublishedWhenOver
  <1>1. WebhookTypeOK /\ [WebhookNext]_webhookVars =>
          [published' /\ ~published => \A e \in Endpoint : delivery[e] \in Terminal \cup {"none"}]_webhookVars
    <2> SUFFICES ASSUME WebhookTypeOK, WebhookNext, published', ~published, NEW e \in Endpoint
                 PROVE  delivery[e] \in Terminal \cup {"none"}
      OBVIOUS
    <2>1. ASSUME UNCHANGED published PROVE FALSE
      BY <2>1, Zenon
    <2>2. PICK h \in Handler : MarkPublished(h)
      BY <2>1
         DEF WebhookNext, EventOccurs, CreateEndpoint, ReplayDelivery, HandlerStep, ClaimDelivery, Deliver,
             RecordOutcome, HandlerThrows, SigningThrows, TransactionFails, HandlerLost, LoadEndpoints
    <2>3. NothingOutstanding
      BY <2>2, Zenon DEF MarkPublished
    <2> QED BY <2>3 DEF NothingOutstanding, WebhookTypeOK, DeliveryStatus, Terminal
  <1> QED BY <1>1, WebhookTypeInit, WebhookTypeNext, PTL DEF WebhookSpec, PublishedWhenOver

(* Nothing was lost and nobody replayed anything: then there is one job, and the
   handler of one attempt in it at a time.                                       *)
Calm == trouble = 0 /\ Replays = {}

OneHandler ==
  \A h \in Handler : handling[h] # Nobody =>
    /\ handling[h] = Dispatch /\ queue[Dispatch] = "running" /\ attempt[h] = tries[Dispatch]
    /\ \A g \in Handler : handling[g] # Nobody => g = h

(* It is at a delivery that it claimed, and no last attempt leaves one for later. *)
LocalsFollow ==
  \A h \in Handler :
    /\ at[h] # Nobody => handling[h] # Nobody /\ delivery[at[h]] = "delivering"
    /\ answer[h] # "none" => at[h] # Nobody
    /\ handling[h] # Nobody /\ outstanding[h] => attempt[h] < WebhookAttempts

(* Each delivery that began is of an endpoint the handler knows, and is over, or
   still to be done, or being done, or left for the next attempt.                *)
DeliveriesKnown ==
  /\ \A e \in Endpoint : delivery[e] # "none" => e \in registered
  /\ \A h \in Handler : todo[h] \subseteq registered
  /\ \A h \in Handler, e \in Endpoint : handling[h] # Nobody =>
        \/ delivery[e] \in Terminal \cup {"none"} \/ e \in todo[h] \/ at[h] = e
        \/ delivery[e] = "failed" /\ outstanding[h]

(* An endpoint that accepted is not asked again: its answer is recorded, or is
   about to be.                                                                  *)
AcceptedKnown ==
  \A e \in Endpoint : /\ accepted[e] <= 1
                      /\ accepted[e] = 1 => \/ delivery[e] = "delivered"
                                            \/ \E h \in Handler : at[h] = e /\ answer[h] = "accepted"

EndIsWhole ==
  /\ ~occurred => queue[Dispatch] = "absent"
  /\ queue[Dispatch] \in {"done", "dead"} /\ unsigned[Dispatch] = Nobody =>
        published /\ \A e \in Endpoint : delivery[e] \in Terminal \cup {"none"}

CalmFacts == OneHandler /\ LocalsFollow /\ DeliveriesKnown /\ AcceptedKnown /\ EndIsWhole

WebhookInv == WebhookTypeOK /\ (Calm => CalmFacts)

LEMMA WebhookInvInit == WebhookInit => WebhookInv
  <1> SUFFICES ASSUME WebhookInit PROVE CalmFacts
    BY WebhookTypeInit DEF WebhookInv
  <1> QED BY WebhookAssumption
          DEF WebhookInit, CalmFacts, OneHandler, LocalsFollow, DeliveriesKnown, AcceptedKnown, EndIsWhole

(* What the rules of the schema allow of a delivery that was claimed. *)
LEMMA OutcomeIsAllowed ==
  ASSUME NEW h \in Handler, delivery[at[h]] = "delivering"
  PROVE  DeliveryMay(delivery[at[h]], Outcome(h))
  BY DEF DeliveryMay, Outcome

(* The end of an attempt. *)
LEMMA LeaveEffect ==
  ASSUME WebhookTypeOK, OneHandler, LocalsFollow, NEW h \in Handler, handling[h] # Nobody, at[h] = Nobody, Leave(h)
  PROVE  /\ \A g \in Handler : handling'[g] = Nobody /\ at'[g] = Nobody /\ answer'[g] = "none"
         /\ \A g \in Handler : at[g] = Nobody /\ answer[g] = "none"
  <1>1. \A g \in Handler : g # h => handling[g] = Nobody
    BY DEF OneHandler
  <1>2. \A g \in Handler : at[g] = Nobody /\ answer[g] = "none"
    BY <1>1 DEF LocalsFollow
  <1>3. /\ handling'[h] = Nobody /\ at'[h] = Nobody /\ answer'[h] = "none"
        /\ \A g \in Handler : g # h => handling'[g] = handling[g] /\ at'[g] = at[g] /\ answer'[g] = answer[g]
    BY DEF Leave, WebhookTypeOK
  <1> QED BY <1>1, <1>2, <1>3

LEMMA SettledEffect ==
  ASSUME WebhookTypeOK, OneHandler, NEW h \in Handler, handling[h] # Nobody, NEW to, Settled(h, to)
  PROVE  queue'[Dispatch] = to
  BY WebhookAssumption DEF WebhookTypeOK, OneHandler, Settled

(* Trouble and replays stay. *)
LEMMA CalmBefore == WebhookTypeOK /\ [WebhookNext]_webhookVars /\ Calm' => Calm
  <1> SUFFICES ASSUME WebhookTypeOK, [WebhookNext]_webhookVars, Calm' PROVE Calm
    OBVIOUS
  <1> USE WebhookAssumption
  <1>1. trouble = 0
    BY DEF WebhookTypeOK, Calm, WebhookNext, webhookVars, EventOccurs, CreateEndpoint, ReplayDelivery, HandlerStep,
           ClaimDelivery, Deliver, RecordOutcome, HandlerThrows, SigningThrows, TransactionFails, MarkPublished,
           HandlerLost, LoadEndpoints
  <1>2. \A j \in WebhookJob : queue[j] # "absent" => queue'[j] # "absent" \/ j = Dispatch
    <2>1. ASSUME NEW h \in Handler, NEW to \in {"ready", "done", "dead", "stranded"}, Settled(h, to),
                 NEW j \in WebhookJob, queue[j] # "absent"
          PROVE  queue'[j] # "absent"
      BY <2>1 DEF Settled, WebhookTypeOK
    <2>2. ASSUME NEW h \in Handler, Throws(h) \/ MarkPublished(h) \/ HandlerLost(h)
          PROVE  \E to \in {"ready", "done", "dead", "stranded"} : Settled(h, to)
      BY <2>2 DEF Throws, MarkPublished, HandlerLost
    <2>3. ASSUME NEW h \in Handler, Throws(h) \/ MarkPublished(h) \/ HandlerLost(h)
          PROVE  \A j \in WebhookJob : queue[j] # "absent" => queue'[j] # "absent"
      BY <2>1, <2>2, <2>3
    <2>4. CASE EventOccurs
      BY <2>4 DEF EventOccurs, WebhookTypeOK
    <2>5. ASSUME NEW e \in Endpoint, NEW j \in WebhookJob, ReplayDelivery(j, e)
          PROVE  \A k \in WebhookJob : queue[k] # "absent" => queue'[k] # "absent"
      BY <2>5 DEF ReplayDelivery, WebhookTypeOK
    <2>6. ASSUME NEW h \in Handler, NEW j \in WebhookJob, LoadEndpoints(h, j)
          PROVE  \A k \in WebhookJob : queue[k] # "absent" => queue'[k] # "absent"
      BY <2>6 DEF LoadEndpoints, WebhookTypeOK
    <2>7. CASE UNCHANGED queue
      BY <2>7
    <2> QED BY <2>3, <2>4, <2>5, <2>6, <2>7
            DEF WebhookNext, HandlerStep, CreateEndpoint, ClaimDelivery, Deliver, RecordOutcome,
                HandlerThrows, SigningThrows, TransactionFails, webhookVars
  <1>3. Replays = {}
    BY <1>2 DEF Replays, Calm
  <1> QED BY <1>1, <1>3 DEF Calm

(* One step of the handler at a delivery of its own. *)
LEMMA CalmLoad ==
  ASSUME WebhookTypeOK, Calm, Calm', CalmFacts, NEW h \in Handler, NEW j \in WebhookJob, LoadEndpoints(h, j)
  PROVE  CalmFacts'
  <1> USE WebhookAssumption
  <1>t. OneHandler /\ LocalsFollow /\ DeliveriesKnown /\ AcceptedKnown /\ EndIsWhole
    BY DEF CalmFacts
  <1>1. queue[j] = "ready" /\ j = Dispatch
    BY DEF LoadEndpoints, Calm, Replays, WebhookTypeOK
  <1>2. \A g \in Handler : handling[g] = Nobody /\ at[g] = Nobody /\ answer[g] = "none"
    BY <1>t, <1>1 DEF OneHandler, LocalsFollow
  <1>3. /\ queue'[Dispatch] = "running" /\ tries'[Dispatch] = attempt'[h]
        /\ handling'[h] = Dispatch /\ todo'[h] = registered /\ ~outstanding'[h]
        /\ \A g \in Handler : g # h => handling'[g] = handling[g] /\ todo'[g] = todo[g]
        /\ UNCHANGED <<registered, occurred, delivery, published, accepted, at, answer>>
    BY <1>1 DEF LoadEndpoints, WebhookTypeOK
  <1>4. OneHandler' /\ LocalsFollow'
    BY <1>2, <1>3 DEF OneHandler, LocalsFollow
  <1>5. DeliveriesKnown'
    BY <1>t, <1>2, <1>3 DEF DeliveriesKnown
  <1>6. AcceptedKnown' /\ EndIsWhole'
    BY <1>t, <1>1, <1>3 DEF AcceptedKnown, EndIsWhole
  <1> QED BY <1>4, <1>5, <1>6 DEF CalmFacts

LEMMA CalmClaim ==
  ASSUME WebhookTypeOK, CalmFacts, NEW h \in Handler, NEW e \in Endpoint, ClaimDelivery(h, e)
  PROVE  CalmFacts'
  <1> USE WebhookAssumption
  <1>t. OneHandler /\ LocalsFollow /\ DeliveriesKnown /\ AcceptedKnown /\ EndIsWhole
    BY DEF CalmFacts
  <1>0. /\ handling[h] # Nobody /\ at[h] = Nobody /\ e \in todo[h]
        /\ todo'[h] = todo[h] \ {e} /\ \A g \in Handler : g # h => todo'[g] = todo[g]
        /\ UNCHANGED <<registered, occurred, published, accepted, queue, tries, handling, attempt, answer, outstanding, unsigned>>
    BY DEF ClaimDelivery, WebhookTypeOK
  <1>1. \A g \in Handler : g # h => handling[g] = Nobody /\ at[g] = Nobody
    BY <1>t, <1>0 DEF OneHandler, LocalsFollow
  <1>2. OneHandler'
    BY <1>t, <1>0 DEF OneHandler
  <1>3. CASE delivery[e] \in Terminal
    <2>1. UNCHANGED <<delivery, at>>
      BY <1>3 DEF ClaimDelivery
    <2>2. DeliveriesKnown'
      BY <1>t, <1>0, <1>1, <1>3, <2>1 DEF DeliveriesKnown
    <2>3. LocalsFollow' /\ AcceptedKnown' /\ EndIsWhole'
      BY <1>t, <1>0, <2>1 DEF LocalsFollow, AcceptedKnown, EndIsWhole
    <2> QED BY <1>2, <2>2, <2>3 DEF CalmFacts
  <1>4. CASE delivery[e] \notin Terminal
    <2>1. /\ delivery'[e] = "delivering" /\ \A x \in Endpoint : x # e => delivery'[x] = delivery[x]
          /\ at'[h] = e /\ \A g \in Handler : g # h => at'[g] = at[g]
      BY <1>4 DEF ClaimDelivery, WebhookTypeOK
    <2>2. LocalsFollow'
      BY <1>t, <1>0, <1>1, <2>1 DEF LocalsFollow
    <2>3. e \in registered
      BY <1>t, <1>0, <1>4 DEF LocalsFollow, DeliveriesKnown, WebhookTypeOK
    <2>4. DeliveriesKnown'
      BY <1>t, <1>0, <1>1, <2>1, <2>3 DEF DeliveriesKnown
    <2>5. AcceptedKnown'
      BY <1>t, <1>0, <1>1, <1>4, <2>1 DEF AcceptedKnown, Terminal
    <2>6. EndIsWhole'
      BY <1>t, <1>0, <1>4, <2>1 DEF EndIsWhole, OneHandler
    <2> QED BY <1>2, <2>2, <2>4, <2>5, <2>6 DEF CalmFacts
  <1> QED BY <1>3, <1>4

LEMMA CalmDeliver ==
  ASSUME WebhookTypeOK, Calm, Calm', CalmFacts, NEW h \in Handler, Deliver(h)
  PROVE  CalmFacts'
  <1>t. OneHandler /\ LocalsFollow /\ DeliveriesKnown /\ AcceptedKnown /\ EndIsWhole
    BY DEF CalmFacts
  <1> DEFINE e == at[h]
  <1>0. /\ e \in Endpoint /\ answer[h] = "none" /\ e # Nobody
        /\ UNCHANGED <<registered, occurred, delivery, published, queue, tries, handling, attempt, todo, at, outstanding, unsigned>>
        /\ answer'[h] # "none" /\ \A g \in Handler : g # h => answer'[g] = answer[g]
        /\ \/ answer'[h] = "accepted" /\ accepted' = [accepted EXCEPT ![e] = @ + 1]
           \/ answer'[h] = "rejected" /\ UNCHANGED accepted
    BY DEF Deliver, WebhookTypeOK, Calm
  <1>1. delivery[e] = "delivering" /\ handling[h] # Nobody
    BY <1>t, <1>0 DEF LocalsFollow
  <1>2. \A g \in Handler : g # h => handling[g] = Nobody /\ at[g] = Nobody
    BY <1>t, <1>1 DEF OneHandler, LocalsFollow
  <1>3. accepted[e] = 0
    BY <1>t, <1>0, <1>1, <1>2 DEF AcceptedKnown, WebhookTypeOK
  <1>4. OneHandler' /\ LocalsFollow' /\ DeliveriesKnown' /\ EndIsWhole'
    BY <1>t, <1>0 DEF OneHandler, LocalsFollow, DeliveriesKnown, EndIsWhole
  <1>5. AcceptedKnown'
    <2> HIDE DEF e
    <2> SUFFICES ASSUME NEW x \in Endpoint
                 PROVE  /\ accepted'[x] <= 1
                        /\ accepted'[x] = 1 => \/ delivery'[x] = "delivered"
                                               \/ \E g \in Handler : at'[g] = x /\ answer'[g] = "accepted"
      BY DEF AcceptedKnown
    <2>1. CASE x = e
      <3>1. (accepted'[e] = 1 /\ answer'[h] = "accepted") \/ accepted'[e] = 0
        BY <1>0, <1>3 DEF WebhookTypeOK
      <3>2. at'[h] = e
        BY <1>0 DEF e
      <3> QED BY <2>1, <3>1, <3>2
    <2>2. CASE x # e
      <3>1. accepted'[x] = accepted[x]
        BY <1>0, <2>2 DEF WebhookTypeOK
      <3>2. \A g \in Handler : at[g] = x => g # h
        BY <2>2 DEF e
      <3> QED BY <1>t, <1>0, <3>1, <3>2 DEF AcceptedKnown
    <2> QED BY <2>1, <2>2
  <1> QED BY <1>4, <1>5 DEF CalmFacts

LEMMA CalmRecord ==
  ASSUME WebhookTypeOK, CalmFacts, NEW h \in Handler, RecordOutcome(h)
  PROVE  CalmFacts'
  <1> USE WebhookAssumption
  <1>t. OneHandler /\ LocalsFollow /\ DeliveriesKnown /\ AcceptedKnown /\ EndIsWhole
    BY DEF CalmFacts
  <1> DEFINE e == at[h]
             o == Outcome(h)
  <1>1. answer[h] # "none" /\ e \in Endpoint /\ delivery[e] = "delivering" /\ handling[h] # Nobody
    BY <1>t DEF RecordOutcome, LocalsFollow, WebhookTypeOK
  <1>2. /\ o = IF answer[h] = "accepted" THEN "delivered"
               ELSE IF FinalAttempt(h) THEN "dead_letter" ELSE "failed"
        /\ attempt[h] < WebhookAttempts \/ FinalAttempt(h)
    BY DEF Outcome, FinalAttempt, WebhookTypeOK
  <1>3. /\ delivery' = [delivery EXCEPT ![e] = o]
        /\ outstanding'[h] <=> outstanding[h] \/ o = "failed"
        /\ at'[h] = Nobody /\ answer'[h] = "none"
        /\ \A g \in Handler : g # h => at'[g] = at[g] /\ answer'[g] = answer[g] /\ outstanding'[g] = outstanding[g]
        /\ UNCHANGED <<registered, occurred, published, accepted, queue, tries, handling, attempt, todo, unsigned>>
    BY DEF RecordOutcome, WebhookTypeOK
  <1>4. \A g \in Handler : g # h => handling[g] = Nobody /\ at[g] = Nobody /\ answer[g] = "none"
    BY <1>t, <1>1 DEF OneHandler, LocalsFollow
  <1> HIDE DEF e, o
  <1>5. delivery'[e] = o /\ \A x \in Endpoint : x # e => delivery'[x] = delivery[x]
    BY <1>1, <1>3 DEF WebhookTypeOK
  <1>6. OneHandler'
    BY <1>t, <1>3 DEF OneHandler
  <1>7. LocalsFollow'
    BY <1>t, <1>2, <1>3, <1>4 DEF LocalsFollow
  <1>8. DeliveriesKnown'
    <2>1. /\ \A x \in Endpoint : delivery'[x] # "none" => x \in registered
          /\ \A g \in Handler : todo'[g] \subseteq registered'
      BY <1>t, <1>1, <1>3, <1>5 DEF DeliveriesKnown
    <2>2. o \in Terminal \/ (o = "failed" /\ outstanding'[h])
      BY <1>2, <1>3 DEF Terminal
    <2>3. \A x \in Endpoint : x # e => at[h] # x
      BY DEF e
    <2> QED BY <1>t, <1>1, <1>3, <1>4, <1>5, <2>1, <2>2, <2>3 DEF DeliveriesKnown
  <1>9. AcceptedKnown'
    <2> SUFFICES ASSUME NEW x \in Endpoint, accepted[x] = 1 PROVE delivery'[x] = "delivered"
      BY <1>t, <1>3 DEF AcceptedKnown
    <2>1. PICK g \in Handler : delivery[x] = "delivered" \/ (at[g] = x /\ answer[g] = "accepted")
      BY <1>t, <1>1 DEF AcceptedKnown
    <2>2. CASE delivery[x] = "delivered"
      BY <1>1, <1>5, <2>2
    <2>3. CASE at[g] = x /\ answer[g] = "accepted"
      <3>1. g = h
        BY <1>4, <2>3
      <3> QED BY <1>2, <1>5, <2>3, <3>1 DEF e
    <2> QED BY <2>1, <2>2, <2>3
  <1>10. EndIsWhole'
    BY <1>t, <1>1, <1>3 DEF EndIsWhole, OneHandler
  <1> QED BY <1>6, <1>7, <1>8, <1>9, <1>10 DEF CalmFacts

LEMMA CalmThrows ==
  ASSUME WebhookTypeOK, CalmFacts, NEW h \in Handler, HandlerThrows(h)
  PROVE  CalmFacts'
  <1> USE WebhookAssumption
  <1>t. OneHandler /\ LocalsFollow /\ DeliveriesKnown /\ AcceptedKnown /\ EndIsWhole
    BY DEF CalmFacts
  <1>1. handling[h] # Nobody /\ at[h] = Nobody /\ todo[h] = {} /\ outstanding[h]
    BY <1>t, OutcomeIsAllowed DEF HandlerThrows, LocalsFollow
  <1>2. ~(attempt[h] >= WebhookAttempts)
    BY <1>t, <1>1 DEF LocalsFollow, WebhookTypeOK
  <1>3. Settled(h, "ready") /\ Leave(h)
    BY <1>2 DEF HandlerThrows, Throws
  <1>4. queue'[Dispatch] = "ready"
    BY <1>t, <1>1, <1>3, SettledEffect
  <1>5. /\ \A g \in Handler : handling'[g] = Nobody /\ at'[g] = Nobody /\ answer'[g] = "none"
        /\ \A g \in Handler : at[g] = Nobody /\ answer[g] = "none"
    BY <1>t, <1>1, <1>3, LeaveEffect
  <1>6. UNCHANGED <<registered, occurred, delivery, published, accepted>> /\ occurred
    BY <1>t, <1>1 DEF HandlerThrows, EndIsWhole, OneHandler
  <1>7. \A g \in Handler : todo'[g] \subseteq registered'
    BY <1>t, <1>3, <1>6 DEF DeliveriesKnown, Leave, WebhookTypeOK
  <1>8. OneHandler' /\ LocalsFollow'
    BY <1>5 DEF OneHandler, LocalsFollow
  <1>9. DeliveriesKnown'
    BY <1>t, <1>5, <1>6, <1>7 DEF DeliveriesKnown
  <1>10. AcceptedKnown' /\ EndIsWhole'
    BY <1>t, <1>4, <1>5, <1>6 DEF AcceptedKnown, EndIsWhole
  <1> QED BY <1>8, <1>9, <1>10 DEF CalmFacts

(* An attempt that ends where the event cannot be signed has sent nothing there,
   and whatever the job becomes, the endpoint is on record.                      *)
LEMMA CalmUnsigned ==
  ASSUME WebhookTypeOK, CalmFacts, NEW h \in Handler, SigningThrows(h)
  PROVE  CalmFacts'
  <1> USE WebhookAssumption
  <1>t. OneHandler /\ LocalsFollow /\ DeliveriesKnown /\ AcceptedKnown /\ EndIsWhole
    BY DEF CalmFacts
  <1>1. /\ at[h] \in Endpoint /\ answer[h] = "none" /\ handling[h] = Dispatch /\ Leave(h)
        /\ UNCHANGED <<registered, occurred, delivery, published, accepted, tries>>
    BY <1>t DEF SigningThrows, Throws, OneHandler, LocalsFollow, WebhookTypeOK
  <1>2. \A g \in Handler : g # h => handling[g] = Nobody /\ at[g] = Nobody
    BY <1>t, <1>1 DEF OneHandler, LocalsFollow
  <1>3. \A g \in Handler : answer[g] = "none"
    BY <1>t, <1>1, <1>2 DEF LocalsFollow
  <1>4. \A g \in Handler : /\ handling'[g] = Nobody /\ at'[g] = Nobody /\ answer'[g] = "none"
                           /\ todo'[g] \subseteq registered
    BY <1>t, <1>1, <1>2, <1>3 DEF Leave, DeliveriesKnown, WebhookTypeOK
  <1>5. unsigned'[Dispatch] # Nobody
    BY <1>1 DEF SigningThrows, WebhookTypeOK
  <1>6. occurred
    BY <1>t, <1>1 DEF EndIsWhole, OneHandler
  <1>7. OneHandler' /\ LocalsFollow'
    BY <1>4 DEF OneHandler, LocalsFollow
  <1>8. DeliveriesKnown'
    BY <1>t, <1>1, <1>4 DEF DeliveriesKnown
  <1>9. AcceptedKnown'
    BY <1>t, <1>1, <1>3 DEF AcceptedKnown
  <1>10. EndIsWhole'
    BY <1>1, <1>5, <1>6 DEF EndIsWhole
  <1> QED BY <1>7, <1>8, <1>9, <1>10 DEF CalmFacts

LEMMA CalmPublished ==
  ASSUME WebhookTypeOK, CalmFacts, NEW h \in Handler, MarkPublished(h)
  PROVE  CalmFacts'
  <1> USE WebhookAssumption
  <1>t. OneHandler /\ LocalsFollow /\ DeliveriesKnown /\ AcceptedKnown /\ EndIsWhole
    BY DEF CalmFacts
  <1>1. handling[h] # Nobody /\ at[h] = Nobody /\ todo[h] = {} /\ ~outstanding[h] /\ Settled(h, "done") /\ Leave(h)
    BY DEF MarkPublished
  <1>2. \A e \in Endpoint : delivery[e] \in Terminal \cup {"none"}
    BY <1>t, <1>1 DEF DeliveriesKnown
  <1>3. NothingOutstanding
    BY <1>2 DEF NothingOutstanding, Terminal
  <1>4. published'
    BY <1>3, Zenon DEF MarkPublished
  <1>5. queue'[Dispatch] = "done"
    BY <1>t, <1>1, SettledEffect
  <1>6. /\ \A g \in Handler : handling'[g] = Nobody /\ at'[g] = Nobody /\ answer'[g] = "none"
        /\ \A g \in Handler : at[g] = Nobody /\ answer[g] = "none"
    BY <1>t, <1>1, LeaveEffect
  <1>7. UNCHANGED <<registered, occurred, delivery, accepted>> /\ occurred
    BY <1>t, <1>1 DEF MarkPublished, EndIsWhole, OneHandler
  <1>8. \A g \in Handler : todo'[g] \subseteq registered'
    BY <1>t, <1>1, <1>7 DEF DeliveriesKnown, Leave, WebhookTypeOK
  <1>9. OneHandler' /\ LocalsFollow'
    BY <1>6 DEF OneHandler, LocalsFollow
  <1>10. DeliveriesKnown'
    BY <1>t, <1>6, <1>7, <1>8 DEF DeliveriesKnown
  <1>11. AcceptedKnown'
    BY <1>t, <1>6, <1>7 DEF AcceptedKnown
  <1>12. EndIsWhole'
    BY <1>2, <1>4, <1>7 DEF EndIsWhole
  <1> QED BY <1>9, <1>10, <1>11, <1>12 DEF CalmFacts

LEMMA CalmNext ==
  ASSUME WebhookTypeOK, Calm, Calm', CalmFacts, [WebhookNext]_webhookVars
  PROVE  CalmFacts'
  <1> USE WebhookAssumption
  <1>t. OneHandler /\ LocalsFollow /\ DeliveriesKnown /\ AcceptedKnown /\ EndIsWhole
    BY DEF CalmFacts
  <1>1. CASE EventOccurs
    <2>1. /\ queue[Dispatch] = "absent" /\ queue'[Dispatch] \in {"absent", "ready"} /\ occurred'
          /\ UNCHANGED <<registered, delivery, published, accepted, tries, handlers, unsigned>>
      BY <1>1, <1>t DEF EventOccurs, EndIsWhole, WebhookTypeOK
    <2>2. OneHandler' /\ LocalsFollow' /\ DeliveriesKnown'
      BY <1>t, <2>1 DEF OneHandler, LocalsFollow, DeliveriesKnown, handlers
    <2>3. AcceptedKnown' /\ EndIsWhole'
      BY <1>t, <2>1 DEF AcceptedKnown, EndIsWhole, handlers
    <2> QED BY <2>2, <2>3 DEF CalmFacts
  <1>2. ASSUME NEW e \in Endpoint, CreateEndpoint(e) PROVE CalmFacts'
    <2>1. registered \subseteq registered'
          /\ UNCHANGED <<occurred, delivery, published, accepted, queue, tries, handlers, unsigned>>
      BY <1>2 DEF CreateEndpoint
    <2>2. OneHandler' /\ LocalsFollow' /\ AcceptedKnown' /\ EndIsWhole'
      BY <1>t, <2>1 DEF OneHandler, LocalsFollow, AcceptedKnown, EndIsWhole, handlers
    <2>3. DeliveriesKnown'
      BY <1>t, <2>1 DEF DeliveriesKnown, handlers
    <2> QED BY <2>2, <2>3 DEF CalmFacts
  <1>3. ASSUME NEW e \in Endpoint, NEW j \in WebhookJob, ReplayDelivery(j, e) PROVE CalmFacts'
    BY <1>3 DEF ReplayDelivery, Calm, Replays, WebhookTypeOK
  <1>4. ASSUME NEW h \in Handler, HandlerLost(h) PROVE CalmFacts'
    BY <1>4 DEF HandlerLost, Calm
  <1>6. ASSUME NEW h \in Handler, TransactionFails(h) PROVE CalmFacts'
    BY <1>6 DEF TransactionFails, Calm
  <1>5. CASE UNCHANGED webhookVars
    <2>1. OneHandler' /\ LocalsFollow' /\ DeliveriesKnown'
      BY <1>5, <1>t DEF OneHandler, LocalsFollow, DeliveriesKnown, handlers, webhookVars
    <2>2. AcceptedKnown' /\ EndIsWhole'
      BY <1>5, <1>t DEF AcceptedKnown, EndIsWhole, handlers, webhookVars
    <2> QED BY <2>1, <2>2 DEF CalmFacts
  <1> QED BY <1>1, <1>2, <1>3, <1>4, <1>5, <1>6, CalmLoad, CalmClaim, CalmDeliver, CalmRecord, CalmThrows,
             CalmUnsigned, CalmPublished
          DEF WebhookNext, HandlerStep

LEMMA WebhookInvNext == WebhookInv /\ [WebhookNext]_webhookVars => WebhookInv'
  BY WebhookTypeNext, CalmBefore, CalmNext DEF WebhookInv

(* A retry for one failing endpoint does not send again to those that accepted
   (claimDelivery): for any number of endpoints and attempts, a subscriber gets an
   event twice only when a lease, a worker, an answer or a transaction was lost,
   or on request.                                                                *)
THEOREM AcceptedOnceHolds == WebhookSpec => []AcceptedOnce
  <1>1. WebhookInv => AcceptedOnce
    BY DEF WebhookInv, Calm, CalmFacts, AcceptedKnown, AcceptedOnce
  <1> QED BY <1>1, WebhookInvInit, WebhookInvNext, PTL DEF WebhookSpec

(* Once the job of the event has ended, each delivery it began is delivered or
   given up and the event is published, unless its last attempt ended at an endpoint
   for which the event could not be signed, a lease, a worker, an answer or a
   transaction was lost, or a replay is responsible for it (handleWebhookDeliver,
   recordDeadLetter): for any number of endpoints and attempts.                  *)
THEOREM EndedIsAccountedHolds == WebhookSpec => []EndedIsAccounted
  <1>1. WebhookInv => EndedIsAccounted
    BY DEF WebhookInv, Calm, CalmFacts, EndIsWhole, EndedIsAccounted
  <1> QED BY <1>1, WebhookInvInit, WebhookInvNext, PTL DEF WebhookSpec

---------------------------------------------------------------------------------
(* A download grant is redeemed no more often than it allows, however many visitors
   come at once: the count is compared in the update that raises it.               *)
THEOREM GrantTypeCorrect == GrantSpec => []GrantTypeOK
  <1> USE GrantAssumption
  <1>1. GrantInit => GrantTypeOK
    <2>1. GrantInit => packageReady \in BOOLEAN
      BY Zenon DEF GrantInit
    <2> QED BY <2>1 DEF GrantInit, GrantTypeOK
  <1>2. GrantTypeOK /\ [GrantNext]_grantVars => GrantTypeOK'
    <2> SUFFICES ASSUME GrantTypeOK, [GrantNext]_grantVars PROVE GrantTypeOK'
      OBVIOUS
    <2> USE DEF GrantTypeOK
    <2>1. ASSUME PackageBecomesReady PROVE GrantTypeOK'
      BY <2>1 DEF PackageBecomesReady
    <2>2. ASSUME NEW g \in Grant, IssueGrant(g) \/ RevokeGrant(g) \/ GrantExpires(g) PROVE GrantTypeOK'
      BY <2>2 DEF IssueGrant, RevokeGrant, GrantExpires
    <2>3. ASSUME NEW g \in Grant, NEW v \in Visitor, Redeem(g, v) PROVE GrantTypeOK'
      <3>1. useCount[g] + 1 \in 0..MaximumUses /\ downloads[g][v] + 1 \in 0..MaxTraces
        BY <2>3 DEF Redeem
      <3>2. useCount' \in [Grant -> 0..MaximumUses] /\ downloads' \in [Grant -> [Visitor -> 0..MaxTraces]]
        BY <2>3, <3>1 DEF Redeem
      <3> QED BY <2>3, <3>2 DEF Redeem
    <2>4. CASE UNCHANGED grantVars
      BY <2>4 DEF grantVars
    <2> QED BY <2>1, <2>2, <2>3, <2>4 DEF GrantNext
  <1> QED BY <1>1, <1>2, PTL DEF GrantSpec

---------------------------------------------------------------------------------
(* Lists.  What a reader has been given lies at the cursor or before it, and of a list
   whose cursor is exact what was there when the walk began is given or lies beyond. *)
ListingTyped ==
  /\ visible \subseteq Row /\ atStart \subseteq visible
  /\ stamp \in [Row -> 0..Unstamped] /\ \A r \in visible : stamp[r] \in 0..MaxClock
  /\ listed \in [Row -> Nat]
  /\ cursor \in [key : Nat \X Nat, skip : Nat]

GivenIsBehind ==
  \A r \in Row : /\ listed[r] \in {0, 1}
                 /\ listed[r] = 1 => r \in visible /\ (walk # "ended" => ~Beyond(r))

NothingIsSkipped ==
  \A r \in atStart : listed[r] = 1 \/ (walk = "walking" /\ Beyond(r))

ListingInv ==
  /\ ListingTyped /\ list \in {"cases", "requests", "templates", "offsets"}
  /\ walk = "none" => cursor = FirstPage /\ listed = [r \in Row |-> 0] /\ atStart = {}
  /\ list # "offsets" => cursor.skip = 0 /\ GivenIsBehind
  /\ list = "templates" => NothingIsSkipped

(* Earlier in milliseconds is earlier. *)
LEMMA InMsIsBefore == \A t \in Nat : InMs(t) \in 0..t
  <1> SUFFICES ASSUME NEW t \in Nat PROVE InMs(t) \in 0..t
    OBVIOUS
  <1>1. PerMs \in Nat \ {0}
    BY ListingAssumption
  <1>2. t \div PerMs \in Nat /\ (t \div PerMs) * PerMs <= t
    BY <1>1
  <1>3. (t \div PerMs) * PerMs \in Nat
    BY <1>1, <1>2
  <1> QED BY <1>2, <1>3 DEF InMs

LEMMA ListingInvInit == ListingInit => ListingInv
  <1> SUFFICES ASSUME ListingInit PROVE ListingInv
    OBVIOUS
  <1> USE ListingAssumption DEF ListingInit, Unstamped
  <1>1. cursor \in [key : Nat \X Nat, skip : Nat] /\ cursor.skip = 0
    BY DEF FirstPage
  <1>2. ListingTyped
    BY <1>1 DEF ListingTyped
  <1>3. GivenIsBehind /\ NothingIsSkipped
    BY DEF GivenIsBehind, NothingIsSkipped
  <1> QED BY <1>1, <1>2, <1>3 DEF ListingInv

(* What lies beyond the cursor, in numbers. *)
LEMMA BeyondMeans ==
  ASSUME ListingTyped
  PROVE  /\ cursor.key[1] \in Nat /\ cursor.key[2] \in Nat
         /\ \A r \in Row : /\ r \in Nat /\ stamp[r] \in Nat
                           /\ Beyond(r) <=> \/ stamp[r] < cursor.key[1]
                                            \/ stamp[r] = cursor.key[1] /\ r < cursor.key[2]
         /\ \A r, q \in Row : Earlier(PlaceOf(r), PlaceOf(q)) <=> \/ stamp[r] < stamp[q]
                                                                  \/ stamp[r] = stamp[q] /\ r < q
  <1>1. cursor.key \in Nat \X Nat
    BY DEF ListingTyped
  <1>2. \A r \in Row : r \in Nat /\ stamp[r] \in Nat
    BY ListingAssumption DEF ListingTyped, Unstamped
  <1> QED BY <1>1, <1>2 DEF Beyond, Earlier, PlaceOf

(* The rows before one on a page, counted. *)
LEMMA RankIsNumber ==
  ASSUME ListingTyped, NEW r \in Row
  PROVE  /\ IsFiniteSet({q \in visible : Beyond(q) /\ Earlier(PlaceOf(r), PlaceOf(q))}) /\ Rank(r) \in Nat
  <1>1. {q \in visible : Beyond(q) /\ Earlier(PlaceOf(r), PlaceOf(q))} \subseteq Row
    BY DEF ListingTyped
  <1> QED BY <1>1, ListingAssumption, FS_Subset, FS_CardinalityType DEF Rank

LEMMA LaterRanksHigher ==
  ASSUME ListingTyped, NEW r \in Row, NEW q \in Row, Earlier(PlaceOf(q), PlaceOf(r))
  PROVE  Rank(r) <= Rank(q)
  <1> DEFINE Before(x) == {y \in visible : Beyond(y) /\ Earlier(PlaceOf(x), PlaceOf(y))}
  <1>1. Before(r) \subseteq Before(q)
    <2> SUFFICES ASSUME NEW y \in Before(r) PROVE Earlier(PlaceOf(q), PlaceOf(y))
      OBVIOUS
    <2>1. y \in Row /\ Earlier(PlaceOf(r), PlaceOf(y))
      BY DEF ListingTyped
    <2> QED BY <2>1, BeyondMeans
  <1>2. IsFiniteSet(Before(q)) /\ IsFiniteSet(Before(r))
    BY RankIsNumber
  <1>3. Cardinality(Before(r)) <= Cardinality(Before(q))
    BY <1>1, <1>2, FS_Subset
  <1> QED BY <1>3 DEF Rank

LEMMA ListingEventsAround ==
  ASSUME ListingInv, NowPasses \/ (\E r \in Row : AddRow(r) \/ CommitRow(r)) \/ UNCHANGED listingVars
  PROVE  ListingInv'
  <1> USE DEF ListingInv
  <1>1. UNCHANGED <<list, walk, cursor, listed, atStart>>
    BY DEF NowPasses, AddRow, CommitRow, listingVars
  <1>2. ListingTyped' /\ visible \subseteq visible' /\ \A r \in visible : stamp'[r] = stamp[r]
    <2>1. ASSUME NEW r \in Row, AddRow(r)
          PROVE  ListingTyped' /\ visible \subseteq visible' /\ \A q \in visible : stamp'[q] = stamp[q]
      <3>1. PICK t \in 0..MaxClock : stamp' = [stamp EXCEPT ![r] = t]
        BY <2>1 DEF AddRow
      <3>2. r \notin visible /\ visible' = visible
        BY <2>1, ListingAssumption DEF AddRow, ListingTyped, Unstamped
      <3>3. t \in 0..Unstamped
        BY ListingAssumption DEF Unstamped
      <3>4. stamp' \in [Row -> 0..Unstamped] /\ \A q \in visible : stamp'[q] = stamp[q]
        BY <3>1, <3>2, <3>3 DEF ListingTyped
      <3> QED BY <1>1, <3>2, <3>4 DEF ListingTyped, Unstamped
    <2>2. ASSUME NEW r \in Row, CommitRow(r)
          PROVE  ListingTyped' /\ visible \subseteq visible' /\ \A q \in visible : stamp'[q] = stamp[q]
      <3>1. stamp[r] \in 0..MaxClock
        BY <2>2, ListingAssumption DEF CommitRow, ListingTyped, Unstamped
      <3> QED BY <1>1, <2>2, <3>1 DEF CommitRow, ListingTyped, Unstamped
    <2>3. CASE NowPasses \/ UNCHANGED listingVars
      BY <1>1, <2>3 DEF NowPasses, listingVars, ListingTyped, Unstamped
    <2> QED BY <2>1, <2>2, <2>3
  <1>3. \A r \in visible : Beyond(r)' <=> Beyond(r)
    BY <1>1, <1>2 DEF Beyond, Earlier, PlaceOf
  <1>4. GivenIsBehind => GivenIsBehind'
    BY <1>1, <1>2, <1>3 DEF GivenIsBehind
  <1>5. NothingIsSkipped => NothingIsSkipped'
    BY <1>1, <1>2, <1>3 DEF NothingIsSkipped, ListingTyped
  <1>6. (cursor = FirstPage)' <=> cursor = FirstPage
    BY <1>1 DEF FirstPage, Unstamped
  <1> QED BY <1>1, <1>2, <1>4, <1>5, <1>6

(* The cursor after a page is a key that is not after the last row of the page, and of
   the templates just its place; or it skips the page.                               *)
LEMMA CursorMoves ==
  ASSUME ListingTyped, NEW last \in Row
  PROVE  /\ CursorAfter(last) \in [key : Nat \X Nat, skip : Nat]
         /\ list # "offsets" /\ list \in {"cases", "requests", "templates"} =>
              /\ CursorAfter(last).skip = cursor.skip
              /\ \/ CursorAfter(last).key[1] < stamp[last]
                 \/ CursorAfter(last).key[1] = stamp[last] /\ CursorAfter(last).key[2] <= last
              /\ list = "templates" => CursorAfter(last).key = PlaceOf(last)
  <1>0. last \in Nat /\ stamp[last] \in Nat /\ InMs(stamp[last]) \in 0..stamp[last]
    BY BeyondMeans, InMsIsBefore
  <1>1. CASE list = "cases"
    <2>1. CursorAfter(last) = [cursor EXCEPT !.key = <<InMs(stamp[last]), last>>]
      BY <1>1, Zenon DEF CursorAfter, CaseCursor
    <2> QED BY <1>0, <1>1, <2>1 DEF ListingTyped
  <1>2. CASE list = "requests"
    <2>1. CursorAfter(last) = [cursor EXCEPT !.key = <<InMs(stamp[last]), 0>>]
      BY <1>2, Zenon DEF CursorAfter, RequestCursor
    <2> QED BY <1>0, <1>2, <2>1 DEF ListingTyped
  <1>3. CASE list = "templates"
    <2>1. CursorAfter(last) = [cursor EXCEPT !.key = <<stamp[last], last>>]
      BY <1>3, Zenon DEF CursorAfter, TemplateCursor, PlaceOf
    <2> QED BY <1>0, <1>3, <2>1 DEF ListingTyped, PlaceOf
  <1>4. CASE list \notin {"cases", "requests", "templates"}
    <2>1. CursorAfter(last) = [cursor EXCEPT !.skip = cursor.skip + Limit]
      BY <1>4, Zenon DEF CursorAfter
    <2> QED BY <1>4, <2>1, ListingAssumption DEF ListingTyped
  <1> QED BY <1>1, <1>2, <1>3, <1>4

LEMMA PageKeepsListing ==
  ASSUME ListingInv, Page
  PROVE  ListingInv'
  <1>0. /\ ListingTyped /\ walk # "ended" /\ UNCHANGED <<list, now, stamp, visible>>
        /\ listed' = [r \in Row |-> IF r \in OnPage THEN listed[r] + 1 ELSE listed[r]]
        /\ atStart' = IF walk = "none" THEN visible ELSE atStart
        /\ \/ walk' = "ended" /\ OnPage = Selected /\ UNCHANGED cursor
           \/ walk' = "walking"
    BY DEF ListingInv, Page
  <1>1. /\ OnPage \subseteq visible /\ \A r \in OnPage : Beyond(r)
        /\ visible \subseteq Row
    BY <1>0 DEF OnPage, Selected, ListingTyped
  <1>2. PICK page : page = OnPage
    OBVIOUS
  <1>3. \A r \in Row : listed'[r] = IF r \in page THEN listed[r] + 1 ELSE listed[r]
    BY <1>0, <1>2
  <1>4. ASSUME walk' = "walking"
        PROVE  \E last \in page : /\ \A r \in page : ~Earlier(PlaceOf(r), PlaceOf(last))
                                  /\ cursor' = CursorAfter(last)
    BY <1>2, <1>4 DEF Page
  <1>5. ListingTyped'
    <2>1. cursor' \in [key : Nat \X Nat, skip : Nat]
      <3>1. CASE walk' = "walking"
        BY <1>0, <1>1, <1>2, <1>4, <3>1, CursorMoves
      <3> QED BY <1>0, <3>1 DEF ListingTyped
    <2>2. listed' \in [Row -> Nat]
      BY <1>0, <1>2 DEF ListingTyped
    <2> QED BY <1>0, <2>1, <2>2 DEF ListingTyped, Unstamped
  <1>6. ASSUME list # "offsets" PROVE cursor'.skip = 0 /\ GivenIsBehind'
    <2>1. cursor.skip = 0 /\ GivenIsBehind /\ list \in {"cases", "requests", "templates"}
      BY <1>6 DEF ListingInv
    <2>2. \A r \in Row : /\ listed'[r] \in {0, 1}
                         /\ listed'[r] = 1 => r \in visible /\ (r \in page \/ ~Beyond(r))
      BY <1>0, <1>1, <1>2, <1>3, <2>1 DEF GivenIsBehind
    <2>3. CASE walk' = "ended" /\ UNCHANGED cursor
      BY <1>0, <2>1, <2>2, <2>3 DEF GivenIsBehind
    <2>4. CASE walk' = "walking"
      <3>1. PICK last \in page : /\ \A r \in page : ~Earlier(PlaceOf(r), PlaceOf(last))
                                 /\ cursor' = CursorAfter(last)
        BY <1>4, <2>4
      <3>2. last \in Row /\ Beyond(last)
        BY <1>1, <1>2
      <3>3. /\ cursor'.skip = 0
            /\ cursor'.key[1] < stamp[last] \/ (cursor'.key[1] = stamp[last] /\ cursor'.key[2] <= last)
        BY <1>0, <2>1, <3>1, <3>2, CursorMoves
      <3>4. ASSUME NEW r \in Row, r \in page \/ ~Beyond(r) PROVE ~Beyond(r)'
        <4>1. ~(stamp[r] < stamp[last] \/ (stamp[r] = stamp[last] /\ r < last))
          <5>1. CASE r \in page
            BY <1>0, <3>1, <3>2, <5>1, BeyondMeans
          <5>2. CASE ~Beyond(r)
            BY <1>0, <3>2, <5>2, BeyondMeans
          <5> QED BY <3>4, <5>1, <5>2
        <4>2. r \in Nat /\ last \in Nat /\ stamp[r] \in Nat /\ stamp[last] \in Nat
          BY <1>0, <3>2, BeyondMeans
        <4>3. cursor'.key \in Nat \X Nat /\ stamp' = stamp
          BY <1>0, <1>5 DEF ListingTyped
        <4>4. ~(stamp[r] < cursor'.key[1] \/ (stamp[r] = cursor'.key[1] /\ r < cursor'.key[2]))
          BY <3>3, <4>1, <4>2, <4>3
        <4> QED BY <4>3, <4>4 DEF Beyond, Earlier, PlaceOf
      <3> QED BY <1>0, <2>2, <3>3, <3>4 DEF GivenIsBehind
    <2> QED BY <1>0, <2>3, <2>4
  <1>7. ASSUME list = "templates" PROVE NothingIsSkipped'
    <2>1. cursor.skip = 0 /\ GivenIsBehind /\ NothingIsSkipped
      BY <1>7 DEF ListingInv
    <2>2. \A r \in atStart' : r \in visible /\ (listed[r] = 1 \/ Beyond(r))
      <3>1. CASE walk = "none"
        <4>1. cursor = FirstPage /\ atStart' = visible
          BY <1>0, <3>1 DEF ListingInv
        <4>2. \A r \in visible : stamp[r] < Unstamped
          BY <1>0, ListingAssumption DEF ListingTyped, Unstamped
        <4> QED BY <4>1, <4>2 DEF Beyond, Earlier, PlaceOf, FirstPage
      <3>2. CASE walk # "none"
        BY <1>0, <2>1, <3>2 DEF NothingIsSkipped, ListingTyped
      <3> QED BY <3>1, <3>2
    <2>3. \A r \in visible : listed[r] = 1 => ~Beyond(r)
      BY <1>0, <1>1, <2>1 DEF GivenIsBehind
    <2>4. \A r \in visible : /\ listed[r] = 1 => listed'[r] = 1
                             /\ r \in page => listed'[r] = 1
      <3>1. \A r \in Row : listed[r] \in {0, 1}
        BY <2>1 DEF GivenIsBehind
      <3> QED BY <1>1, <1>2, <1>3, <2>3, <3>1
    <2>5. \A r \in visible : Beyond(r) => r \in Selected /\ Rank(r) \in Nat
      <3>1. \A r \in visible : Rank(r) \in Nat
        BY <1>0, <1>1, RankIsNumber
      <3>2. \A r \in visible : Rank(r) >= cursor.skip
        BY <2>1, <3>1
      <3> QED BY <3>1, <3>2 DEF Selected
    <2>6. \A r \in visible : Beyond(r) => r \in page \/ Rank(r) >= Limit
      BY <1>2, <2>1, <2>5, ListingAssumption DEF OnPage
    <2>7. CASE walk' = "ended" /\ OnPage = Selected
      BY <1>2, <2>2, <2>4, <2>5, <2>7 DEF NothingIsSkipped
    <2>8. CASE walk' = "walking"
      <3>1. PICK last \in page : /\ \A r \in page : ~Earlier(PlaceOf(r), PlaceOf(last))
                                 /\ cursor' = CursorAfter(last)
        BY <1>4, <2>8
      <3>2. last \in Row /\ last \in visible /\ Beyond(last) /\ Rank(last) < Limit
        <4>1. last \in visible /\ Beyond(last) /\ last \in Row
          BY <1>1, <1>2
        <4>2. Rank(last) < cursor.skip + Limit
          BY <1>2 DEF OnPage
        <4> QED BY <2>1, <4>1, <4>2, ListingAssumption
      <3>3. cursor'.key = PlaceOf(last)
        BY <1>0, <1>7, <3>1, <3>2, CursorMoves
      <3>4. ASSUME NEW r \in visible, Rank(r) >= Limit, Beyond(r) PROVE Beyond(r)'
        <4>1. Rank(r) \in Nat /\ Rank(last) \in Nat /\ r \in Row
          BY <1>0, <1>1, <3>2, RankIsNumber
        <4>2. r # last /\ ~(Rank(r) <= Rank(last))
          BY <3>2, <3>4, <4>1, ListingAssumption
        <4>3. ~Earlier(PlaceOf(last), PlaceOf(r))
          BY <1>0, <3>2, <4>1, <4>2, LaterRanksHigher
        <4>4. Earlier(PlaceOf(r), PlaceOf(last))
          BY <1>0, <3>2, <4>1, <4>2, <4>3, BeyondMeans
        <4>5. Earlier(PlaceOf(r), cursor'.key) /\ stamp' = stamp
          BY <1>0, <3>3, <4>4
        <4> QED BY <4>5 DEF Beyond, PlaceOf
      <3> QED BY <2>2, <2>4, <2>6, <2>8, <3>4 DEF NothingIsSkipped
    <2> QED BY <1>0, <2>7, <2>8 DEF Page
  <1> QED BY <1>0, <1>5, <1>6, <1>7 DEF ListingInv

LEMMA ListingInvNext == ListingInv /\ [ListingNext]_listingVars => ListingInv'
  BY ListingEventsAround, PageKeepsListing DEF ListingNext

(* The rows of a list, their stamps and what was listed keep their types
   (keyset-repositories.ts).                                                      *)
THEOREM ListingTypeCorrect == ListingSpec => []ListingTypeOK
  <1> DEFINE ClockInv == ListingInv /\ now \in 0..MaxClock
  <1>1. ListingInit => ClockInv
    BY ListingInvInit, ListingAssumption DEF ListingInit
  <1>2. now \in 0..MaxClock /\ [ListingNext]_listingVars => (now \in 0..MaxClock)'
    BY ListingAssumption DEF ListingNext, NowPasses, Page, AddRow, CommitRow, listingVars
  <1>3. ClockInv /\ [ListingNext]_listingVars => ClockInv'
    BY <1>2, ListingInvNext
  <1>4. ClockInv => ListingTypeOK
    BY DEF ListingInv, ListingTyped, ListingTypeOK
  <1> QED BY <1>1, <1>3, <1>4, PTL DEF ListingSpec

(* Pages that are found by a key never overlap, however many rows are added in
   between, and pages whose key is exact leave out nothing that was there when the
   walk began.                                                                    *)
THEOREM ListedOnceHolds == ListingSpec => []ListedOnce
  <1>1. ListingInv => ListedOnce
    BY DEF ListingInv, GivenIsBehind, NothingIsSkipped, ListedOnce
  <1> QED BY <1>1, ListingInvInit, ListingInvNext, PTL DEF ListingSpec

=================================================================================
