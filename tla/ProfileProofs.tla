--------------------------- MODULE ProfileProofs ---------------------------
(***************************************************************************)
(* Proofs about what follows a user's record, for any number of contents,  *)
(* readers, handlers, redeliveries, lost deliveries and evictions: an      *)
(* acked event shows, and no event undoes a later one.                     *)
(***************************************************************************)
EXTENDS Projections, TLAPS

-----------------------------------------------------------------------------
(* The copies, the mail and the cached profile.                            *)

\* The number of places an event is in, and the types of the variables.
Places(e) ==
    (IF e \in queued THEN 1 ELSE 0) + (IF e \in acked THEN 1 ELSE 0)
      + (IF e \in dead THEN 1 ELSE 0) + (IF e = event THEN 1 ELSE 0)

OnePlace == \A e \in 1..MaxContent : Places(e) = (IF e <= content THEN 1 ELSE 0)

RecordTyped ==
    /\ content \in 0..MaxContent /\ gone \in BOOLEAN /\ purging \in 0..content
    /\ event \in 0..content /\ read \in 0..content
    /\ queued \cup acked \cup dead \subseteq 1..content
    /\ cached \in 0..content

HandlerTyped ==
    /\ pc \in {"idle", "read", "del", "sinks"}
    /\ pc = "idle" <=> event = 0
    /\ todo \subseteq Copies \cup {"welcome"} /\ failed \in BOOLEAN
    /\ pc # "sinks" => todo = {}
    /\ lost \in 0..MaxLost /\ job \in {"none", "kept", "evicted"}
    /\ welcomes \in Nat /\ evicted \in 0..MaxEvicted

MapsTyped ==
    /\ tries \in [1..MaxContent -> 0..MaxRedeliveries]
    /\ copy \in [Copies -> 0..content]
    /\ strays \subseteq Copies \X (0..content)
    /\ load \in [Readers -> {"idle", "load", "set"}]
    /\ loaded \in [Readers -> 0..content]

Typed == RecordTyped /\ HandlerTyped /\ MapsTyped

LEMMA TypesAndPlaces == Typed /\ OnePlace => TypeOK
BY BoundsAssumption
   DEF BoundsAssumption, Typed, RecordTyped, HandlerTyped, MapsTyped, OnePlace, Places, TypeOK,
       Contents

\* No copy, and no write that a lost delivery left behind, shows more than what
\* the handler under way has read.
ReadIsLatest ==
    pc \in {"del", "sinks"} =>
        /\ event <= read
        /\ \A s \in Copies : copy[s] <= read
        /\ \A w \in strays : w[2] <= read

\* What the handler wrote without a failure shows, until a lost delivery's
\* write comes after it.
WrittenShows ==
    lost = 0 =>
        /\ strays = {}
        /\ \A e \in acked : \A s \in Copies : copy[s] >= e
        /\ pc = "sinks" /\ ~failed => \A s \in Copies \ todo : copy[s] = read

\* Every mail that was enqueued but the one whose job is kept was evicted.
MailsAreEvicted ==
    /\ job = "none" => welcomes = 0
    /\ welcomes <= evicted + (IF job = "kept" THEN 1 ELSE 0)

CopiesInv ==
    /\ Typed /\ OnePlace
    /\ ReadIsLatest /\ WrittenShows /\ MailsAreEvicted

LEMMA CopiesStart == Init => CopiesInv
<1> SUFFICES ASSUME Init PROVE CopiesInv
  OBVIOUS
<1> USE BoundsAssumption DEF BoundsAssumption, Init
<1>1. Typed
  <2>1. /\ tries \in [1..MaxContent -> 0..MaxRedeliveries] /\ copy \in [Copies -> 0..content]
        /\ load \in [Readers -> {"idle", "load", "set"}] /\ loaded \in [Readers -> 0..content]
        /\ queued \cup acked \cup dead \subseteq 1..content
    OBVIOUS
  <2>2. RecordTyped
    <3>1. content \in 0..MaxContent /\ 0 \in 0..content
      OBVIOUS
    <3>2. gone \in BOOLEAN
      BY Zenon
    <3> QED
      BY <2>1, <3>1, <3>2 DEF RecordTyped
  <2>3. HandlerTyped
    <3>1. /\ lost \in 0..MaxLost /\ welcomes \in Nat /\ evicted \in 0..MaxEvicted
          /\ todo = {} /\ pc = "idle" /\ event = 0 /\ job = "none"
      OBVIOUS
    <3>2. failed \in BOOLEAN
      BY Zenon
    <3> QED
      BY ONLY <3>1, <3>2 DEF HandlerTyped
  <2>4. MapsTyped
    BY <2>1 DEF MapsTyped
  <2> QED
    BY <2>2, <2>3, <2>4 DEF Typed
<1>2. OnePlace
  BY DEF OnePlace, Places
<1> QED
  BY <1>1, <1>2 DEF CopiesInv, ReadIsLatest, WrittenShows, MailsAreEvicted

LEMMA SamePlaces ==
    ASSUME OnePlace, UNCHANGED <<content, queued, acked, dead, event>> PROVE OnePlace'
BY DEF OnePlace, Places

\* The event under way is nowhere else; it goes back to the queue, or is
\* parked.
LEMMA Returned ==
    ASSUME Typed, OnePlace, event # 0, Redeliver, event' = 0, UNCHANGED content
    PROVE  /\ OnePlace' /\ tries' \in [1..MaxContent -> 0..MaxRedeliveries]
           /\ queued' \cup acked' \cup dead' \subseteq 1..content /\ acked' = acked
<1> USE BoundsAssumption DEF BoundsAssumption
<1>0. /\ event \in 1..content /\ event \in 1..MaxContent /\ content \in 0..MaxContent
      /\ queued \cup acked \cup dead \subseteq 1..content
      /\ tries \in [1..MaxContent -> 0..MaxRedeliveries] /\ acked' = acked
  BY DEF Typed, RecordTyped, MapsTyped, Redeliver
<1>1. event \notin queued /\ event \notin acked /\ event \notin dead
  BY <1>0 DEF OnePlace, Places
<1>2. CASE tries[event] < MaxRedeliveries
  <2>1. queued' = queued \cup {event} /\ dead' = dead
        /\ tries' = [tries EXCEPT ![event] = @ + 1]
    BY <1>2 DEF Redeliver
  <2>2. OnePlace'
    BY <1>0, <1>1, <2>1 DEF OnePlace, Places
  <2> QED
    BY <1>0, <1>2, <2>1, <2>2
<1>3. CASE ~(tries[event] < MaxRedeliveries)
  <2>1. queued' = queued /\ dead' = dead \cup {event} /\ tries' = tries
    BY <1>3 DEF Redeliver
  <2>2. OnePlace'
    BY <1>0, <1>1, <2>1 DEF OnePlace, Places
  <2> QED
    BY <1>0, <2>1, <2>2
<1> QED
  BY <1>2, <1>3

LEMMA CopiesStep == CopiesInv /\ [Next]_vars => CopiesInv'
<1> SUFFICES ASSUME CopiesInv, [Next]_vars PROVE CopiesInv'
  OBVIOUS
<1> USE BoundsAssumption DEF BoundsAssumption
<1>0. /\ content \in 0..MaxContent /\ gone \in BOOLEAN /\ purging \in 0..content
      /\ tries \in [1..MaxContent -> 0..MaxRedeliveries]
      /\ pc \in {"idle", "read", "del", "sinks"}
      /\ event \in 0..content /\ read \in 0..content
      /\ pc = "idle" <=> event = 0
      /\ queued \cup acked \cup dead \subseteq 1..content
      /\ todo \subseteq Copies \cup {"welcome"} /\ failed \in BOOLEAN
      /\ pc # "sinks" => todo = {}
      /\ strays \subseteq Copies \X (0..content) /\ lost \in 0..MaxLost
      /\ job \in {"none", "kept", "evicted"}
      /\ welcomes \in Nat /\ evicted \in 0..MaxEvicted
      /\ cached \in 0..content
  BY DEF CopiesInv, Typed, RecordTyped, HandlerTyped, MapsTyped
<1>f. /\ copy \in [Copies -> 0..content]
      /\ load \in [Readers -> {"idle", "load", "set"}]
      /\ loaded \in [Readers -> 0..content]
  BY DEF CopiesInv, Typed, RecordTyped, HandlerTyped, MapsTyped
<1>i. OnePlace /\ ReadIsLatest /\ WrittenShows /\ MailsAreEvicted
  BY DEF CopiesInv
<1>t. Typed
  BY DEF CopiesInv
<1> SUFFICES Typed' /\ OnePlace' /\ ReadIsLatest' /\ WrittenShows' /\ MailsAreEvicted'
  BY DEF CopiesInv
<1>1. ASSUME NEW last \in BOOLEAN, Commit(last)
      PROVE  Typed' /\ OnePlace' /\ ReadIsLatest' /\ WrittenShows' /\ MailsAreEvicted'
  <2>1. /\ content < MaxContent /\ content' = content + 1 /\ gone' = last
        /\ purging' \in {purging, purging + 1} /\ (content = 0 => purging' = purging)
        /\ queued' = queued \cup {content + 1}
        /\ UNCHANGED <<tries, acked, dead>> /\ UNCHANGED <<pc, event, read, todo, failed>>
        /\ UNCHANGED <<copy, strays, lost>> /\ UNCHANGED <<job, welcomes, evicted>>
        /\ UNCHANGED <<cached, load, loaded>>
    BY <1>1 DEF Commit, handler, writes, mail, cache
  <2>2. copy' \in [Copies -> 0..content'] /\ loaded' \in [Readers -> 0..content']
    BY <1>0, <1>f, <2>1
  <2>3. Typed'
    <3>1. RecordTyped'
      BY <1>0, <1>f, <2>1, <2>2 DEF RecordTyped
    <3>2. HandlerTyped'
      BY <1>0, <1>f, <2>1, <2>2 DEF HandlerTyped
    <3>3. MapsTyped'
      BY <1>0, <1>f, <2>1, <2>2 DEF MapsTyped
    <3> QED
      BY <3>1, <3>2, <3>3 DEF Typed
  <2>4. OnePlace'
    <3> SUFFICES ASSUME NEW e \in 1..MaxContent
                 PROVE  Places(e)' = (IF e <= content' THEN 1 ELSE 0)
      BY DEF OnePlace
    <3>1. Places(e) = (IF e <= content THEN 1 ELSE 0)
      BY <1>i DEF OnePlace
    <3>2. CASE e = content + 1
      BY <1>0, <2>1, <3>1, <3>2 DEF Places
    <3>3. CASE e # content + 1
      BY <1>0, <2>1, <3>1, <3>3 DEF Places
    <3> QED
      BY <3>2, <3>3
  <2>5. ReadIsLatest' /\ WrittenShows' /\ MailsAreEvicted'
    BY <1>i, <2>1 DEF ReadIsLatest, WrittenShows, MailsAreEvicted
  <2> QED
    BY <2>3, <2>4, <2>5
<1>2. CASE Purge
  <2>1. /\ purging > 0 /\ purging' = purging - 1 /\ cached' \in {0, cached}
        /\ UNCHANGED <<content, gone>> /\ UNCHANGED <<queued, tries, acked, dead>>
        /\ UNCHANGED <<pc, event, read, todo, failed>> /\ UNCHANGED <<copy, strays, lost>>
        /\ UNCHANGED <<job, welcomes, evicted>> /\ UNCHANGED <<load, loaded>>
    BY <1>2 DEF Purge, broker, handler, writes, mail
  <2>2. Typed'
    <3>1. RecordTyped'
      BY <1>0, <1>f, <2>1 DEF RecordTyped
    <3>2. HandlerTyped'
      BY <1>0, <1>f, <2>1 DEF HandlerTyped
    <3>3. MapsTyped'
      BY <1>0, <1>f, <2>1 DEF MapsTyped
    <3> QED
      BY <3>1, <3>2, <3>3 DEF Typed
  <2> QED
    BY <1>i, <2>1, <2>2, SamePlaces DEF ReadIsLatest, WrittenShows, MailsAreEvicted
<1>3. ASSUME NEW e \in queued, Take(e)
      PROVE  Typed' /\ OnePlace' /\ ReadIsLatest' /\ WrittenShows' /\ MailsAreEvicted'
  <2>1. /\ pc = "idle" /\ event = 0 /\ e \in 1..content /\ e \in 1..MaxContent
        /\ queued' = queued \ {e} /\ event' = e
        /\ \/ IsDeletion(e) /\ pc' = "del" /\ read' = e
           \/ pc' = "read" /\ read' = 0
        /\ UNCHANGED <<tries, acked, dead, todo, failed>> /\ UNCHANGED <<content, gone, purging>>
        /\ UNCHANGED <<copy, strays, lost>> /\ UNCHANGED <<job, welcomes, evicted>>
        /\ UNCHANGED <<cached, load, loaded>>
    BY <1>0, <1>3 DEF Take, store, writes, mail, cache
  <2>2. Typed'
    <3>1. RecordTyped'
      BY <1>0, <1>f, <2>1 DEF RecordTyped
    <3>2. HandlerTyped'
      BY <1>0, <1>f, <2>1 DEF HandlerTyped
    <3>3. MapsTyped'
      BY <1>0, <1>f, <2>1 DEF MapsTyped
    <3> QED
      BY <3>1, <3>2, <3>3 DEF Typed
  <2>3. OnePlace'
    <3>1. e \notin acked /\ e \notin dead /\ 0 \notin 1..MaxContent
      BY <1>0, <1>i, <2>1 DEF OnePlace, Places
    <3> QED
      BY <1>0, <1>i, <2>1, <3>1 DEF OnePlace, Places
  <2>4. ReadIsLatest'
    <3>1. \A s \in Copies : copy[s] <= content
      BY <1>0, <1>f
    <3>2. \A w \in strays : w[2] <= content
      BY <1>0
    <3> QED
      BY <2>1, <3>1, <3>2 DEF ReadIsLatest, IsDeletion
  <2> QED
    BY <1>i, <2>1, <2>2, <2>3, <2>4 DEF WrittenShows, MailsAreEvicted
<1>4. CASE ReadUser
  <2>1. /\ pc = "read" /\ read' = content
        /\ \/ pc' = "sinks" /\ todo' = Copies \cup {"welcome"} /\ failed' = FALSE
           \/ pc' = "del" /\ UNCHANGED <<todo, failed>>
        /\ UNCHANGED <<content, gone, purging>> /\ UNCHANGED <<queued, tries, acked, dead, event>>
        /\ UNCHANGED <<copy, strays, lost>> /\ UNCHANGED <<job, welcomes, evicted>>
        /\ UNCHANGED <<cached, load, loaded>>
    BY <1>4 DEF ReadUser, Start, store, broker, writes, mail, cache
  <2>2. Typed'
    <3>1. RecordTyped'
      BY <1>0, <1>f, <2>1 DEF RecordTyped
    <3>2. HandlerTyped'
      BY <1>0, <1>f, <2>1 DEF HandlerTyped
    <3>3. MapsTyped'
      BY <1>0, <1>f, <2>1 DEF MapsTyped
    <3> QED
      BY <3>1, <3>2, <3>3 DEF Typed
  <2>3. ReadIsLatest'
    <3>1. \A s \in Copies : copy[s] <= content
      BY <1>0, <1>f
    <3>2. \A w \in strays : w[2] <= content
      BY <1>0
    <3> QED
      BY <1>0, <2>1, <3>1, <3>2 DEF ReadIsLatest
  <2> QED
    BY <1>i, <2>1, <2>2, <2>3, SamePlaces DEF WrittenShows, MailsAreEvicted
<1>5. CASE DropCached
  <2>1. /\ pc = "del" /\ cached' = 0 /\ pc' = "sinks" /\ todo' = Copies /\ failed' = FALSE
        /\ UNCHANGED <<content, gone, purging>> /\ UNCHANGED <<queued, tries, acked, dead, event, read>>
        /\ UNCHANGED <<copy, strays, lost>> /\ UNCHANGED <<job, welcomes, evicted>>
        /\ UNCHANGED <<load, loaded>>
    BY <1>5 DEF DropCached, Start, store, broker, writes, mail
  <2>2. Typed'
    <3>1. RecordTyped'
      BY <1>0, <1>f, <2>1 DEF RecordTyped
    <3>2. HandlerTyped'
      BY <1>0, <1>f, <2>1 DEF HandlerTyped
    <3>3. MapsTyped'
      BY <1>0, <1>f, <2>1 DEF MapsTyped
    <3> QED
      BY <3>1, <3>2, <3>3 DEF Typed
  <2> QED
    BY <1>i, <2>1, <2>2, SamePlaces DEF ReadIsLatest, WrittenShows, MailsAreEvicted
\* The handler's writes raise what a copy shows to what was read.
<1>6. ASSUME NEW s \in Copies, Write(s) \/ WriteFails(s)
      PROVE  Typed' /\ OnePlace' /\ ReadIsLatest' /\ WrittenShows' /\ MailsAreEvicted'
  <2>1. /\ s \in todo /\ todo' = todo \ {s}
        /\ copy' \in {copy, [copy EXCEPT ![s] = read]}
        /\ \/ copy' = [copy EXCEPT ![s] = read] /\ failed' = failed
           \/ failed' = TRUE
        /\ UNCHANGED <<content, gone, purging>> /\ UNCHANGED <<queued, tries, acked, dead, event, read>>
        /\ UNCHANGED <<pc, strays, lost>> /\ UNCHANGED <<job, welcomes, evicted>>
        /\ UNCHANGED <<cached, load, loaded>>
    BY <1>6 DEF Write, WriteFails, store, broker, mail, cache
  <2>2. copy' \in [Copies -> 0..content]
    BY <1>0, <1>f, <2>1
  <2>3. Typed'
    <3>1. RecordTyped'
      BY <1>0, <1>f, <2>1, <2>2 DEF RecordTyped
    <3>2. HandlerTyped'
      BY <1>0, <1>f, <2>1, <2>2 DEF HandlerTyped
    <3>3. MapsTyped'
      BY <1>0, <1>f, <2>1, <2>2 DEF MapsTyped
    <3> QED
      BY <3>1, <3>2, <3>3 DEF Typed
  <2>4. ReadIsLatest'
    <3>1. \A c \in Copies : copy'[c] = copy[c] \/ copy'[c] = read
      BY <1>f, <2>1
    <3>2. read \in Int
      BY <1>0
    <3> QED
      BY <1>i, <2>1, <3>1, <3>2 DEF ReadIsLatest
  <2>5. WrittenShows'
    <3>1. pc = "sinks"
      BY <1>0, <2>1
    <3>2. \A c \in Copies : copy'[c] >= copy[c]
      <4>1. \A c \in Copies : copy[c] <= read /\ copy[c] \in Int
        BY <1>0, <1>f, <1>i, <3>1 DEF ReadIsLatest
      <4> QED
        BY <1>0, <1>f, <2>1, <4>1
    <3>3. ~failed' => ~failed /\ copy'[s] = read /\ \A c \in Copies \ {s} : copy'[c] = copy[c]
      BY <1>0, <1>f, <2>1
    <3>4. \A c \in Copies : copy[c] \in Int /\ copy'[c] \in Int
      BY <1>0, <1>f, <2>2
    <3>5. lost = 0 => \A e \in acked, c \in Copies : copy'[c] >= e
      BY <1>0, <1>i, <3>2, <3>4 DEF WrittenShows
    <3> QED
      BY <1>0, <1>i, <2>1, <3>1, <3>3, <3>5 DEF WrittenShows
  <2> QED
    BY <1>i, <2>1, <2>3, <2>4, <2>5, SamePlaces DEF MailsAreEvicted
<1>7. CASE Welcome
  <2>1. /\ "welcome" \in todo /\ todo' = todo \ {"welcome"}
        /\ \/ job' = "kept" /\ evicted' = evicted
              /\ welcomes' = IF job = "kept" THEN welcomes ELSE welcomes + 1
           \/ UNCHANGED <<job, welcomes, evicted>>
        /\ UNCHANGED <<content, gone, purging>> /\ UNCHANGED <<queued, tries, acked, dead, event, read>>
        /\ UNCHANGED <<pc, copy, strays, lost>> /\ UNCHANGED <<cached, load, loaded>>
    BY <1>7 DEF Welcome, Enqueue, store, broker, writes, mail, cache
  <2>f. failed' \in BOOLEAN /\ (~failed' => ~failed)
    <3>1. failed' = failed \/ failed' = TRUE
      BY <1>7, Zenon DEF Welcome
    <3>2. failed \in BOOLEAN
      BY <1>0
    <3>3. CASE failed' = failed
      BY <3>2, <3>3, Zenon
    <3>4. CASE failed' = TRUE
      BY <3>4, Zenon
    <3> QED
      BY <3>1, <3>3, <3>4
  <2>2. Typed'
    <3>1. RecordTyped'
      BY <1>0, <1>f, <2>1, <2>f DEF RecordTyped
    <3>2. HandlerTyped'
      BY <1>0, <1>f, <2>1, <2>f DEF HandlerTyped
    <3>3. MapsTyped'
      BY <1>0, <1>f, <2>1, <2>f DEF MapsTyped
    <3> QED
      BY <3>1, <3>2, <3>3 DEF Typed
  <2>3. MailsAreEvicted'
    BY <1>0, <1>i, <2>1 DEF MailsAreEvicted
  <2>4. WrittenShows'
    <3>1. Copies \ todo' = Copies \ todo
      BY <2>1 DEF Copies
    <3>2. pc' = "sinks" /\ ~failed' => pc = "sinks" /\ ~failed
      BY <2>1, <2>f
    <3> QED
      BY <1>i, <2>1, <3>1, <3>2 DEF WrittenShows
  <2> QED
    BY <1>i, <2>1, <2>2, <2>3, <2>4, SamePlaces DEF ReadIsLatest
<1>8. CASE CallFails
  <2>1. /\ event # 0 /\ Redeliver
        /\ pc' = "idle" /\ event' = 0 /\ read' = 0 /\ todo' = {} /\ failed' = FALSE
        /\ UNCHANGED <<content, gone, purging>> /\ UNCHANGED <<copy, strays, lost>>
        /\ UNCHANGED <<job, welcomes, evicted>> /\ UNCHANGED <<cached, load, loaded>>
    BY <1>0, <1>8 DEF CallFails, Idle, store, writes, mail, cache
  <2>2. /\ OnePlace' /\ tries' \in [1..MaxContent -> 0..MaxRedeliveries]
        /\ queued' \cup acked' \cup dead' \subseteq 1..content /\ acked' = acked
    BY <1>i, <1>t, <2>1, Returned
  <2>3. Typed'
    <3>1. RecordTyped'
      BY <1>0, <1>f, <2>1, <2>2 DEF RecordTyped
    <3>2. HandlerTyped'
      BY <1>0, <1>f, <2>1, <2>2 DEF HandlerTyped
    <3>3. MapsTyped'
      BY <1>0, <1>f, <2>1, <2>2 DEF MapsTyped
    <3> QED
      BY <3>1, <3>2, <3>3 DEF Typed
  <2> QED
    BY <1>i, <2>1, <2>2, <2>3 DEF ReadIsLatest, WrittenShows, MailsAreEvicted
<1>9. CASE Settle
  <2>1. /\ event # 0 /\ event \in 1..content /\ pc = "sinks" /\ todo = {}
        /\ pc' = "idle" /\ event' = 0 /\ read' = 0 /\ todo' = {} /\ failed' = FALSE
        /\ UNCHANGED <<content, gone, purging>> /\ UNCHANGED <<copy, strays, lost>>
        /\ UNCHANGED <<job, welcomes, evicted>> /\ UNCHANGED <<cached, load, loaded>>
    BY <1>0, <1>9 DEF Settle, Idle, store, writes, mail, cache
  <2>2. CASE failed
    <3>1. /\ OnePlace' /\ tries' \in [1..MaxContent -> 0..MaxRedeliveries]
          /\ queued' \cup acked' \cup dead' \subseteq 1..content /\ acked' = acked
      BY <1>9, <1>i, <1>t, <2>1, <2>2, Returned DEF Settle
    <3>2. Typed'
      <4>1. RecordTyped'
        BY <1>0, <1>f, <2>1, <3>1 DEF RecordTyped
      <4>2. HandlerTyped'
        BY <1>0, <1>f, <2>1, <3>1 DEF HandlerTyped
      <4>3. MapsTyped'
        BY <1>0, <1>f, <2>1, <3>1 DEF MapsTyped
      <4> QED
        BY <4>1, <4>2, <4>3 DEF Typed
    <3> QED
      BY <1>i, <2>1, <3>1, <3>2 DEF ReadIsLatest, WrittenShows, MailsAreEvicted
  <2>3. CASE ~failed
    <3>1. acked' = acked \cup {event} /\ UNCHANGED <<queued, tries, dead>>
      BY <1>9, <2>3 DEF Settle
    <3>2. Typed'
      <4>1. RecordTyped'
        BY <1>0, <1>f, <2>1, <3>1 DEF RecordTyped
      <4>2. HandlerTyped'
        BY <1>0, <1>f, <2>1, <3>1 DEF HandlerTyped
      <4>3. MapsTyped'
        BY <1>0, <1>f, <2>1, <3>1 DEF MapsTyped
      <4> QED
        BY <4>1, <4>2, <4>3 DEF Typed
    <3>3. OnePlace'
      <4>1. event \in 1..MaxContent /\ event \notin acked /\ event \notin queued /\ event \notin dead
        BY <1>0, <1>i, <2>1 DEF OnePlace, Places
      <4> QED
        BY <1>0, <1>i, <2>1, <3>1, <4>1 DEF OnePlace, Places
    <3>4. WrittenShows'
      <4>1. lost = 0 => \A c \in Copies : copy[c] = read
        BY <1>i, <2>1, <2>3 DEF WrittenShows
      <4>2. event <= read
        BY <1>i, <2>1 DEF ReadIsLatest
      <4> QED
        BY <1>0, <1>i, <2>1, <3>1, <4>1, <4>2 DEF WrittenShows
    <3> QED
      BY <1>i, <2>1, <3>2, <3>3, <3>4 DEF ReadIsLatest, MailsAreEvicted
  <2> QED
    BY <2>2, <2>3
<1>10. CASE Lose
  <2>1. /\ event # 0 /\ Redeliver /\ lost < MaxLost /\ lost' = lost + 1
        /\ strays' \subseteq strays \cup (Copies \X {read})
        /\ pc' = "idle" /\ event' = 0 /\ read' = 0 /\ todo' = {} /\ failed' = FALSE
        /\ UNCHANGED <<content, gone, purging>> /\ UNCHANGED copy
        /\ UNCHANGED <<job, welcomes, evicted>> /\ UNCHANGED <<cached, load, loaded>>
    BY <1>0, <1>10 DEF Lose, Idle, store, mail, cache
  <2>2. /\ OnePlace' /\ tries' \in [1..MaxContent -> 0..MaxRedeliveries]
        /\ queued' \cup acked' \cup dead' \subseteq 1..content /\ acked' = acked
    BY <1>i, <1>t, <2>1, Returned
  <2>3. strays' \subseteq Copies \X (0..content) /\ lost' \in 0..MaxLost /\ lost' # 0
    BY <1>0, <2>1
  <2>4. Typed'
    <3>1. RecordTyped'
      BY <1>0, <1>f, <2>1, <2>2, <2>3 DEF RecordTyped
    <3>2. HandlerTyped'
      BY <1>0, <1>f, <2>1, <2>2, <2>3 DEF HandlerTyped
    <3>3. MapsTyped'
      BY <1>0, <1>f, <2>1, <2>2, <2>3 DEF MapsTyped
    <3> QED
      BY <3>1, <3>2, <3>3 DEF Typed
  <2> QED
    BY <1>i, <2>1, <2>2, <2>3, <2>4 DEF ReadIsLatest, WrittenShows, MailsAreEvicted
<1>11. CASE StrayLands
  <2>1. PICK w \in strays :
          strays' = strays \ {w} /\ copy' \in {copy, [copy EXCEPT ![w[1]] = w[2]]}
    BY <1>11 DEF StrayLands
  <2>2. /\ UNCHANGED <<content, gone, purging>> /\ UNCHANGED <<queued, tries, acked, dead>>
        /\ UNCHANGED <<pc, event, read, todo, failed>> /\ UNCHANGED lost
        /\ UNCHANGED <<job, welcomes, evicted>> /\ UNCHANGED <<cached, load, loaded>>
    BY <1>11 DEF StrayLands, store, broker, handler, mail, cache
  <2>3. w[1] \in Copies /\ w[2] \in 0..content
    BY <1>0
  <2>4. /\ copy' \in [Copies -> 0..content]
        /\ \A s \in Copies : copy'[s] \in {copy[s], w[2]}
    BY <1>f, <2>1, <2>3
  <2>5. Typed'
    <3>1. RecordTyped'
      BY <1>0, <1>f, <2>1, <2>2, <2>4 DEF RecordTyped
    <3>2. HandlerTyped'
      BY <1>0, <1>f, <2>1, <2>2, <2>4 DEF HandlerTyped
    <3>3. MapsTyped'
      BY <1>0, <1>f, <2>1, <2>2, <2>4 DEF MapsTyped
    <3> QED
      BY <3>1, <3>2, <3>3 DEF Typed
  <2>6. lost # 0
    BY <1>i, <2>1 DEF WrittenShows
  <2> QED
    BY <1>i, <2>1, <2>2, <2>4, <2>5, <2>6, SamePlaces
       DEF ReadIsLatest, WrittenShows, MailsAreEvicted
<1>12. CASE EvictJob
  <2>1. /\ job = "kept" /\ evicted < MaxEvicted /\ job' = "evicted" /\ evicted' = evicted + 1
        /\ UNCHANGED <<content, gone, purging>> /\ UNCHANGED <<queued, tries, acked, dead>>
        /\ UNCHANGED <<pc, event, read, todo, failed>> /\ UNCHANGED <<copy, strays, lost>>
        /\ UNCHANGED welcomes /\ UNCHANGED <<cached, load, loaded>>
    BY <1>12 DEF EvictJob, store, broker, handler, writes, cache
  <2>2. Typed'
    <3>1. RecordTyped'
      BY <1>0, <1>f, <2>1 DEF RecordTyped
    <3>2. HandlerTyped'
      BY <1>0, <1>f, <2>1 DEF HandlerTyped
    <3>3. MapsTyped'
      BY <1>0, <1>f, <2>1 DEF MapsTyped
    <3> QED
      BY <3>1, <3>2, <3>3 DEF Typed
  <2>3. MailsAreEvicted'
    BY <1>0, <1>i, <2>1 DEF MailsAreEvicted
  <2> QED
    BY <1>i, <2>1, <2>2, <2>3, SamePlaces DEF ReadIsLatest, WrittenShows
\* The readers touch nothing but the cache.
<1>13. ASSUME \/ Expire \/ \E r \in Readers : Get(r) \/ LoadUser(r) \/ Fill(r)
       PROVE  Typed' /\ OnePlace' /\ ReadIsLatest' /\ WrittenShows' /\ MailsAreEvicted'
  <2>1. /\ UNCHANGED <<content, gone, purging>> /\ UNCHANGED <<queued, tries, acked, dead>>
        /\ UNCHANGED <<pc, event, read, todo, failed>> /\ UNCHANGED <<copy, strays, lost>>
        /\ UNCHANGED <<job, welcomes, evicted>>
    BY <1>13 DEF Expire, Get, LoadUser, Fill, store, broker, handler, writes, mail
  <2>2. /\ cached' \in 0..content /\ load' \in [Readers -> {"idle", "load", "set"}]
        /\ loaded' \in [Readers -> 0..content]
    <3>1. CASE Expire
      BY <1>0, <1>f, <3>1 DEF Expire
    <3>2. ASSUME NEW r \in Readers, Get(r) \/ LoadUser(r) \/ Fill(r)
          PROVE  /\ cached' \in 0..content /\ load' \in [Readers -> {"idle", "load", "set"}]
                 /\ loaded' \in [Readers -> 0..content]
      <4>1. CASE Get(r)
        BY <1>0, <1>f, <4>1 DEF Get, Flight
      <4>2. CASE LoadUser(r)
        <5>1. load' \in [Readers -> {"idle", "load", "set"}] /\ cached' = cached
          BY <1>f, <4>2 DEF LoadUser, Flight
        <5>2. loaded' = loaded \/ loaded' = [loaded EXCEPT ![r] = content]
          BY <4>2 DEF LoadUser
        <5> QED
          BY <1>0, <1>f, <5>1, <5>2
      <4>3. CASE Fill(r)
        BY <1>0, <1>f, <4>3 DEF Fill, Flight
      <4> QED
        BY <3>2, <4>1, <4>2, <4>3
    <3> QED
      BY <1>13, <3>1, <3>2
  <2>3. Typed'
    <3>1. RecordTyped'
      BY <1>0, <1>f, <2>1, <2>2 DEF RecordTyped
    <3>2. HandlerTyped'
      BY <1>0, <1>f, <2>1, <2>2 DEF HandlerTyped
    <3>3. MapsTyped'
      BY <1>0, <1>f, <2>1, <2>2 DEF MapsTyped
    <3> QED
      BY <3>1, <3>2, <3>3 DEF Typed
  <2> QED
    BY <1>i, <2>1, <2>3, SamePlaces DEF ReadIsLatest, WrittenShows, MailsAreEvicted
<1>14. CASE UNCHANGED vars
  <2>1. /\ UNCHANGED <<content, gone, purging>> /\ UNCHANGED <<queued, tries, acked, dead>>
        /\ UNCHANGED <<pc, event, read, todo, failed>> /\ UNCHANGED <<copy, strays, lost>>
        /\ UNCHANGED <<job, welcomes, evicted>> /\ UNCHANGED <<cached, load, loaded>>
    BY <1>14 DEF vars, store, broker, handler, writes, mail, cache
  <2>2. Typed'
    <3>1. RecordTyped'
      BY <1>0, <1>f, <2>1 DEF RecordTyped
    <3>2. HandlerTyped'
      BY <1>0, <1>f, <2>1 DEF HandlerTyped
    <3>3. MapsTyped'
      BY <1>0, <1>f, <2>1 DEF MapsTyped
    <3> QED
      BY <3>1, <3>2, <3>3 DEF Typed
  <2> QED
    BY <1>i, <2>1, <2>2, SamePlaces DEF ReadIsLatest, WrittenShows, MailsAreEvicted
<1> QED
  BY <1>1, <1>2, <1>3, <1>4, <1>5, <1>6, <1>7, <1>8, <1>9, <1>10, <1>11, <1>12, <1>13, <1>14
     DEF Next, Handle

\* A copy goes back only by a write of a lost delivery.
LEMMA CopiesNeverBack ==
    ASSUME CopiesInv, [Next]_vars, NEW s \in Copies, copy'[s] < copy[s]
    PROVE  strays' # strays
<1>0. /\ copy \in [Copies -> 0..content] /\ content \in Nat /\ read \in 0..content
      /\ todo # {} => pc = "sinks"
      /\ ReadIsLatest
  BY BoundsAssumption
     DEF BoundsAssumption, CopiesInv, Typed, RecordTyped, HandlerTyped, MapsTyped
<1>1. copy' # copy
  BY <1>0
<1>2. ASSUME NEW c \in Copies, Write(c) \/ WriteFails(c) PROVE FALSE
  <2>1. copy' \in {copy, [copy EXCEPT ![c] = read]} /\ c \in todo
    BY <1>2 DEF Write, WriteFails
  <2>2. copy[s] <= read
    BY <1>0, <2>1 DEF ReadIsLatest
  <2> QED
    BY <1>0, <2>1, <2>2
<1>3. CASE StrayLands
  BY <1>3 DEF StrayLands
<1> QED
  BY <1>1, <1>2, <1>3
     DEF Next, Commit, Purge, Take, Handle, ReadUser, DropCached, CallFails, Settle, Welcome,
         Lose, EvictJob, Get, LoadUser, Fill, Expire, vars, writes

-----------------------------------------------------------------------------
(* The membership graph.                                                   *)

\* What a handler does fits the committed event it was given, and it merges edges of a
\* node that exists.
StepsFit ==
    \A h \in Handlers :
        /\ step[h] # "idle" => delivered[h] \in sent
        /\ step[h] \in {"read", "node", "edge", "invited"} => delivered[h] # "deleted"
        /\ step[h] = "remove" => delivered[h] = "deleted"
        /\ step[h] \in {"edge", "invited"} => node # "absent"

\* Only the holder of the delivery that is out works.  Past the read the user
\* was not removed, and is not until the handler is done.
HolderWorks ==
    \A h \in Handlers :
        /\ step[h] # "idle" <=> holder = h
        /\ step[h] = "node" => node # "removed"
        /\ step[h] \in {"edge", "invited"} => node = "live"
        /\ step[h] = "invited" => member
        /\ step[h] = "done" => member \/ node = "removed"
        /\ step[h] = "done" /\ delivered[h] = "deleted" => node = "removed"

\* A removed user has no membership, and what was acked is in the graph.
GraphKeeps ==
    /\ node = "removed" => ~member
    /\ applied # {} => member \/ node = "removed"
    /\ "deleted" \in applied => node = "removed"

GraphInv ==
    /\ Graph!TypeOK /\ StepsFit
    /\ ~taken => HolderWorks /\ GraphKeeps

LEMMA GraphStart == Graph!Init => GraphInv
BY PartsAssumption
   DEF Graph!GraphAssumption, Graph!Init, GraphInv, Graph!TypeOK, Graph!Events, Graph!NoHandler,
       StepsFit, HolderWorks, GraphKeeps

LEMMA GraphStep == GraphInv /\ [Graph!Next]_graphVars => GraphInv'
<1> SUFFICES ASSUME GraphInv, [Graph!Next]_graphVars PROVE GraphInv'
  OBVIOUS
<1> USE DEF Graph!Events
<1>0. /\ applied \subseteq sent /\ sent \subseteq Graph!Events
      /\ holder \in Handlers \cup {Graph!NoHandler} /\ delivered \in [Handlers -> Graph!Events]
      /\ step \in [Handlers -> {"idle", "read", "node", "edge", "invited", "remove", "done"}]
      /\ node \in {"absent", "live", "removed"}
      /\ member \in BOOLEAN /\ invited \in BOOLEAN /\ taken \in BOOLEAN
      /\ holder # Graph!NoHandler => step[holder] # "idle"
      /\ invited => node # "absent"
      /\ Graph!NoHandler \notin Handlers
  BY PartsAssumption DEF GraphInv, Graph!TypeOK, Graph!GraphAssumption
<1>i. StepsFit /\ (~taken => HolderWorks /\ GraphKeeps)
  BY DEF GraphInv
<1>1. ASSUME NEW e \in Graph!Events, Graph!Commit(e) PROVE GraphInv'
  <2>1. /\ sent' = sent \cup {e}
        /\ UNCHANGED <<applied, holder, delivered, taken, step, node, member, invited>>
    BY <1>1 DEF Graph!Commit, Graph!graph
  <2> QED
    BY <1>0, <1>i, <2>1 DEF GraphInv, Graph!TypeOK, StepsFit, HolderWorks, GraphKeeps
<1>2. ASSUME NEW e \in Graph!Events, NEW h \in Handlers, Graph!Take(h, e) PROVE GraphInv'
  <2>1. /\ holder = Graph!NoHandler /\ holder' = h /\ e \in sent /\ delivered' = [delivered EXCEPT ![h] = e]
        /\ step' = [step EXCEPT ![h] = IF e = "deleted" THEN "remove" ELSE "read"]
        /\ UNCHANGED <<sent, applied, taken, node, member, invited>>
    BY <1>2 DEF Graph!Take, Graph!At, Graph!graph
  <2>2. Graph!TypeOK'
    BY <1>0, <2>1 DEF Graph!TypeOK
  <2>3. StepsFit'
    BY <1>0, <1>i, <2>1 DEF StepsFit
  <2>4. ~taken => HolderWorks'
    BY <1>0, <1>i, <2>1 DEF HolderWorks
  <2> QED
    BY <1>i, <2>1, <2>2, <2>3, <2>4 DEF GraphInv, GraphKeeps
\* The steps of a handler, of which the others do not work unless a delivery
\* was taken.
<1>3. ASSUME NEW h \in Handlers, Graph!Read(h) PROVE GraphInv'
  <2>1. /\ step[h] = "read" /\ step' = [step EXCEPT ![h] = IF node = "removed" THEN "done" ELSE "node"]
        /\ UNCHANGED <<sent, applied, holder, delivered, taken, node, member, invited>>
    BY <1>3 DEF Graph!Read, Graph!At, Graph!graph, Graph!delivery
  <2>2. Graph!TypeOK' /\ StepsFit'
    BY <1>0, <1>i, <2>1 DEF Graph!TypeOK, StepsFit
  <2>3. ~taken => HolderWorks'
    BY <1>0, <1>i, <2>1 DEF StepsFit, HolderWorks
  <2> QED
    BY <1>i, <2>1, <2>2, <2>3 DEF GraphInv, GraphKeeps
<1>4. ASSUME NEW h \in Handlers, Graph!MergeNode(h) PROVE GraphInv'
  <2>1. /\ step[h] = "node" /\ node' = "live" /\ step' = [step EXCEPT ![h] = "edge"]
        /\ UNCHANGED <<sent, applied, holder, delivered, taken, member, invited>>
    BY <1>4 DEF Graph!MergeNode, Graph!At, Graph!delivery
  <2>2. Graph!TypeOK' /\ StepsFit'
    BY <1>0, <1>i, <2>1 DEF Graph!TypeOK, StepsFit
  <2>3. ~taken => HolderWorks' /\ GraphKeeps'
    BY <1>0, <1>i, <2>1 DEF StepsFit, HolderWorks, GraphKeeps
  <2> QED
    BY <1>i, <2>1, <2>2, <2>3 DEF GraphInv
<1>5. ASSUME NEW h \in Handlers, Graph!MergeEdge(h) PROVE GraphInv'
  <2>1. /\ step[h] = "edge" /\ member' = TRUE
        /\ UNCHANGED <<sent, applied, holder, delivered, taken, node, invited>>
    BY <1>5 DEF Graph!MergeEdge, Graph!delivery
  <2>s. PICK next \in {"invited", "done"} : step' = [step EXCEPT ![h] = next]
    BY <1>5 DEF Graph!MergeEdge, Graph!At
  <2>2. Graph!TypeOK' /\ StepsFit'
    BY <1>0, <1>i, <2>1, <2>s DEF Graph!TypeOK, StepsFit
  <2>3. ~taken => HolderWorks' /\ GraphKeeps'
    BY <1>0, <1>i, <2>1, <2>s DEF StepsFit, HolderWorks, GraphKeeps
  <2> QED
    BY <1>i, <2>1, <2>2, <2>3 DEF GraphInv
<1>6. ASSUME NEW h \in Handlers, Graph!MergeInvited(h) PROVE GraphInv'
  <2>1. /\ step[h] = "invited" /\ invited' = TRUE /\ step' = [step EXCEPT ![h] = "done"]
        /\ UNCHANGED <<sent, applied, holder, delivered, taken, node, member>>
    BY <1>6 DEF Graph!MergeInvited, Graph!At, Graph!delivery
  <2>2. Graph!TypeOK' /\ StepsFit'
    BY <1>0, <1>i, <2>1 DEF Graph!TypeOK, StepsFit
  <2>3. ~taken => HolderWorks' /\ GraphKeeps'
    BY <1>0, <1>i, <2>1 DEF StepsFit, HolderWorks, GraphKeeps
  <2> QED
    BY <1>i, <2>1, <2>2, <2>3 DEF GraphInv
<1>7. ASSUME NEW h \in Handlers, Graph!Remove(h) PROVE GraphInv'
  <2>1. /\ step[h] = "remove" /\ node' = "removed" /\ member' = FALSE
        /\ step' = [step EXCEPT ![h] = "done"]
        /\ UNCHANGED <<sent, applied, holder, delivered, taken, invited>>
    BY <1>7 DEF Graph!Remove, Graph!At, Graph!delivery
  <2>2. Graph!TypeOK' /\ StepsFit'
    BY <1>0, <1>i, <2>1 DEF Graph!TypeOK, StepsFit
  <2>3. ~taken => HolderWorks' /\ GraphKeeps'
    BY <1>0, <1>i, <2>1 DEF StepsFit, HolderWorks, GraphKeeps
  <2> QED
    BY <1>i, <2>1, <2>2, <2>3 DEF GraphInv
<1>8. ASSUME NEW h \in Handlers, Graph!Ack(h) PROVE GraphInv'
  <2>1. /\ step[h] = "done" /\ step' = [step EXCEPT ![h] = "idle"]
        /\ UNCHANGED <<sent, delivered, taken, node, member, invited>>
    BY <1>8 DEF Graph!Ack, Graph!At, Graph!graph
  <2>2. CASE holder = h
    <3>1. applied' = applied \cup {delivered[h]} /\ holder' = Graph!NoHandler
      BY <1>8, <2>2 DEF Graph!Ack
    <3>2. applied' \subseteq sent
      BY <1>0, <1>i, <2>1, <3>1 DEF StepsFit
    <3>3. Graph!TypeOK' /\ StepsFit'
      BY <1>0, <1>i, <2>1, <3>1, <3>2 DEF Graph!TypeOK, StepsFit
    <3>4. ~taken => HolderWorks'
      BY <1>0, <1>i, <2>1, <2>2, <3>1 DEF HolderWorks
    <3>5. ~taken => GraphKeeps'
      BY <1>0, <1>i, <2>1, <3>1 DEF HolderWorks, GraphKeeps
    <3> QED
      BY <2>1, <3>3, <3>4, <3>5 DEF GraphInv
  <2>3. CASE holder # h
    <3>1. UNCHANGED <<applied, holder>>
      BY <1>8, <2>3 DEF Graph!Ack
    <3>2. Graph!TypeOK' /\ StepsFit'
      BY <1>0, <1>i, <2>1, <2>3, <3>1 DEF Graph!TypeOK, StepsFit
    <3>3. taken
      BY <1>0, <1>i, <2>1, <2>3 DEF HolderWorks
    <3> QED
      BY <2>1, <3>2, <3>3 DEF GraphInv
  <2> QED
    BY <2>2, <2>3
<1>9. ASSUME NEW h \in Handlers, Graph!Fails(h) PROVE GraphInv'
  <2>1. /\ step' = [step EXCEPT ![h] = "idle"]
        /\ holder' = IF holder = h THEN Graph!NoHandler ELSE holder
        /\ UNCHANGED <<sent, applied, delivered, taken, node, member, invited>>
    BY <1>9 DEF Graph!Fails, Graph!At, Graph!graph
  <2>2. Graph!TypeOK' /\ StepsFit'
    BY <1>0, <1>i, <2>1 DEF Graph!TypeOK, StepsFit
  <2>3. ~taken => HolderWorks' /\ GraphKeeps'
    BY <1>0, <1>i, <2>1 DEF HolderWorks, GraphKeeps
  <2> QED
    BY <2>1, <2>2, <2>3 DEF GraphInv
<1>10. CASE Graph!TakeAway
  <2>1. /\ holder' = Graph!NoHandler /\ taken' = TRUE
        /\ UNCHANGED <<sent, applied, delivered, step, node, member, invited>>
    BY <1>10 DEF Graph!TakeAway, Graph!graph
  <2> QED
    BY <1>0, <1>i, <2>1 DEF GraphInv, Graph!TypeOK, StepsFit
<1>11. CASE UNCHANGED graphVars
  <2>1. UNCHANGED <<sent, applied, holder, delivered, step, node, member, invited, taken>>
    BY <1>11 DEF graphVars
  <2> QED
    BY <1>0, <1>i, <2>1 DEF GraphInv, Graph!TypeOK, StepsFit, HolderWorks, GraphKeeps
<1> QED
  BY <1>1, <1>2, <1>3, <1>4, <1>5, <1>6, <1>7, <1>8, <1>9, <1>10, <1>11
     DEF Graph!Next, Graph!Handle

\* A removed user stays removed and without a membership until a delivery was
\* taken from its handler.
LEMMA RemovedStays ==
    ASSUME GraphInv, [Graph!Next]_graphVars, node = "removed", ~taken
    PROVE  node' = "removed" /\ ~member'
<1>0. HolderWorks /\ ~member
  BY DEF GraphInv, GraphKeeps
<1>1. ASSUME NEW h \in Handlers, Graph!Handle(h) PROVE node' = "removed" /\ ~member'
  BY <1>0, <1>1
     DEF HolderWorks, Graph!Handle, Graph!Read, Graph!MergeNode, Graph!MergeEdge,
         Graph!MergeInvited, Graph!Remove, Graph!Ack, Graph!graph, Graph!delivery
<1> QED
  BY <1>0, <1>1
     DEF Graph!Next, Graph!Commit, Graph!Take, Graph!Fails, Graph!TakeAway, Graph!graph, graphVars

-----------------------------------------------------------------------------
(* The two parts, each of which rests while the other acts.                *)

PartsInv == CopiesInv /\ GraphInv

LEMMA PartsStart == PartsInit => PartsInv
BY CopiesStart, GraphStart DEF PartsInit, PartsInv

\* A step of the whole is a step of either part, or leaves it as it is.
LEMMA PartsRest == [PartsNext]_partVars => [Next]_vars /\ [Graph!Next]_graphVars
BY DEF PartsNext, OnCopies, OnMembers, partVars

LEMMA PartsStep == PartsInv /\ [PartsNext]_partVars => PartsInv'
BY PartsRest, CopiesStep, GraphStep DEF PartsInv

LEMMA PartsInvariance == PartsSpec => []PartsInv
BY PartsStart, PartsStep, PTL DEF PartsSpec

\* Every event of a user is in one place of the broker or under way, and every
\* variable of the copies and of the graph keeps its type.
THEOREM TypesCorrect == PartsSpec => []TypesOK
<1>1. PartsInv => TypesOK
  BY TypesAndPlaces DEF PartsInv, CopiesInv, GraphInv, TypesOK
<1> QED
  BY <1>1, PartsInvariance, PTL

\* What the processors acked shows: in both copies and in the graph, through
\* failed sinks, reordered redeliveries and parked events, and no mail is
\* enqueued twice while its job is kept.
THEOREM AckedEventsAreApplied == PartsSpec => []AckedIsApplied
<1>1. CopiesInv => AckedShows
  <2> SUFFICES ASSUME CopiesInv PROVE AckedShows
    OBVIOUS
  <2>1. lost \in 0..MaxLost /\ welcomes \in Nat /\ evicted \in 0..MaxEvicted
    BY DEF CopiesInv, Typed, HandlerTyped
  <2>2. welcomes <= 1 + evicted
    BY <2>1, BoundsAssumption DEF CopiesInv, MailsAreEvicted, BoundsAssumption
  <2>3. \A e \in acked : lost > 0 \/ \A s \in Copies : copy[s] >= e
    BY <2>1, BoundsAssumption DEF CopiesInv, WrittenShows, BoundsAssumption
  <2> QED
    BY <2>2, <2>3 DEF AckedShows
<1>2. GraphInv => Graph!AckedIsApplied
  BY DEF GraphInv, GraphKeeps, Graph!AckedIsApplied
<1> QED
  BY <1>1, <1>2, PartsInvariance, PTL DEF PartsInv, AckedIsApplied

\* An event that is delivered late undoes nothing a later one did, neither in
\* a copy nor in the graph, unless its handler had lost the delivery.
THEOREM NoEventUndoes == PartsSpec => NothingComesBack
<1>1. PartsInv /\ [PartsNext]_partVars => [\A s \in Copies : copy'[s] < copy[s] => strays' # strays]_vars
  BY PartsRest, CopiesNeverBack DEF PartsInv
<1>2. PartsInv /\ [PartsNext]_partVars =>
        [node = "removed" => taken \/ (node' = "removed" /\ ~member')]_Graph!vars
  BY PartsRest, RemovedStays DEF PartsInv
<1>3. PartsSpec => NeverBack
  BY <1>1, PartsInvariance, PTL DEF PartsSpec, NeverBack
<1>4. PartsSpec => Graph!RemovalIsTerminal
  BY <1>2, PartsInvariance, PTL DEF PartsSpec, Graph!RemovalIsTerminal
<1> QED
  BY <1>3, <1>4 DEF NothingComesBack

=============================================================================
