-------------------------- MODULE CalendarSyncProofs --------------------------
(***************************************************************************)
(* First the safety of the sync lease, for any number of runs and changes  *)
(* by the user, and that a calendar sync keeps to the lease: what is shown *)
(* of LeaseSpec holds of SyncSpec, whatever the work is.                   *)
(*                                                                         *)
(* Then that no run of the calendar sync overwrites an edit at the         *)
(* provider that no run has pulled: for any number of runs, events,        *)
(* mappings and edits, and whoever holds the lease.  The lease is not      *)
(* needed for it: what protects the edit is that a write there names the   *)
(* etag the run knows.                                                     *)
(*                                                                         *)
(* The provider's writes have different etags, so it is enough to say of   *)
(* every etag that a mapping or a run holds that no unseen edit has it.    *)
(* Which event it was read for does not matter, and with overlapping runs  *)
(* nothing could be said of that: one may save its etag in a row that the  *)
(* other has meanwhile given to another event.                             *)
(*                                                                         *)
(* Then the types of the stores and of what runs hold of them; and last    *)
(* what the calendar sync is for: the cursor passes no change that was not *)
(* taken in, and a quiet sync leaves both sides equal.  Both follow from   *)
(* one invariant, CoverInv.  As long as no lease lapsed, the run that has  *)
(* begun is the only one that works; CoverInv relates what it has read,    *)
(* what it has still to do and the row it is about to write to the tables  *)
(* and the provider as they are at that moment.                            *)
(***************************************************************************)
EXTENDS CalendarSync, TLAPS

(* A run whose lease is past its end has lapsed, though the row may still   *)
(* carry its token: the token may be taken from it without its notice.      *)
ExpiredMeansLapsed ==
  \A r \in SyncRuns :
    Working(r) /\ connection.token = r /\ connection.expired => r \in lapsed

LeaseInv == LeaseTypeOK /\ WorksUnderLease /\ ExpiredMeansLapsed

LEMMA LeaseInitInvariant == LeaseInit => LeaseInv
BY SyncLeaseAssumption
   DEF LeaseInit, LeaseInv, LeaseTypeOK, WorksUnderLease, ExpiredMeansLapsed, Working,
       Connection, ConnectionStatus, SyncRun, Phase

(* The types of the row and of the runs, kept apart for the provers.        *)
LEMMA LeaseTypeParts ==
  ASSUME LeaseTypeOK,
         connection' \in Connection, connection'.expired => connection'.token # NoRun,
         syncRuns' \in [SyncRuns -> SyncRun], lapsed' \subseteq SyncRuns,
         userActs' \in 0..MaxUserActs
  PROVE  LeaseTypeOK'
BY DEF LeaseTypeOK

LEMMA LeaseStepType ==
  ASSUME LeaseTypeOK, [LeaseNext]_leaseVars
  PROVE  LeaseTypeOK'
<1> USE SyncLeaseAssumption DEF LeaseTypeOK
<1>1. ASSUME NEW r \in SyncRuns, LeaseStep(r)
      PROVE  LeaseTypeOK'
  <2>1. CASE CheckConnection(r)
    <3>1. syncRuns' \in [SyncRuns -> SyncRun]
      BY <2>1 DEF CheckConnection, SyncRun, Phase
    <3> QED BY <2>1, <3>1 DEF CheckConnection
  <2>2. CASE AcquireLease(r)
    <3>1. connection' \in Connection /\ (connection'.expired => connection'.token # NoRun)
      BY <2>2 DEF AcquireLease, Connection
    <3>2. syncRuns' \in [SyncRuns -> SyncRun]
      BY <2>2 DEF AcquireLease, SyncRun, Phase
    <3> QED BY <2>2, <3>1, <3>2, LeaseTypeParts DEF AcquireLease
  <2>3. CASE Heartbeat(r) \/ HeartbeatFails(r)
    <3>1. \/ connection' = connection
          \/ connection.token = r /\ connection' = [connection EXCEPT !.expired = FALSE]
      BY <2>3 DEF Heartbeat, HeartbeatFails
    <3>2. connection' \in Connection /\ (connection'.expired => connection'.token # NoRun)
      BY <3>1 DEF Connection
    <3>3. syncRuns' \in {syncRuns, [syncRuns EXCEPT ![r].renewing = FALSE]}
      BY <2>3 DEF Heartbeat, HeartbeatFails
    <3>4. [syncRuns EXCEPT ![r].renewing = FALSE] \in [SyncRuns -> SyncRun]
      BY DEF SyncRun
    <3>5. syncRuns' \in [SyncRuns -> SyncRun]
      BY <3>3, <3>4
    <3> QED BY <2>3, <3>2, <3>5, LeaseTypeParts DEF Heartbeat, HeartbeatFails
  <2>4. CASE Conclude(r)
    <3> DEFINE o == IF syncRuns[r].result = "ok" /\ syncRuns[r].renewing
                    THEN "done" ELSE "failed"
    <3>0. syncRuns' = [syncRuns EXCEPT ![r].phase = "releasing", ![r].outcome = o]
      BY <2>4 DEF Conclude
    <3>1. o \in {"done", "failed"}
      OBVIOUS
    <3> HIDE DEF o
    <3>2. syncRuns' \in [SyncRuns -> SyncRun]
      BY <3>0, <3>1 DEF SyncRun, Phase
    <3> QED BY <2>4, <3>2 DEF Conclude
  <2>5. CASE ReleaseLease(r)
    <3>1. connection' \in Connection /\ (connection'.expired => connection'.token # NoRun)
      BY <2>5 DEF ReleaseLease, Released, Connection
    <3>2. syncRuns' \in [SyncRuns -> SyncRun]
      BY <2>5 DEF ReleaseLease, SyncRun, Phase
    <3> QED BY <2>5, <3>1, <3>2, LeaseTypeParts DEF ReleaseLease
  <2> QED BY <1>1, <2>1, <2>2, <2>3, <2>4, <2>5 DEF LeaseStep
<1>2. ASSUME NEW r \in SyncRuns, AnyWork(r)
      PROVE  LeaseTypeOK'
  <2>1. PICK result \in {"ok", "error", "threw"}, status \in ConnectionStatus :
          FinishWork(r, result, status)
    BY <1>2 DEF AnyWork
  <2>2. connection' \in Connection /\ (connection'.expired => connection'.token # NoRun)
    BY <2>1 DEF FinishWork, Connection
  <2>3. syncRuns' \in [SyncRuns -> SyncRun]
    <3>1. syncRuns' = [syncRuns EXCEPT ![r].phase = "finished", ![r].result = result]
      BY <2>1 DEF FinishWork
    <3> QED BY <3>1 DEF SyncRun, Phase
  <2> QED BY <2>1, <2>2, <2>3, LeaseTypeParts DEF FinishWork
<1>3. ASSUME NEW r \in SyncRuns, CrashRun(r)
      PROVE  LeaseTypeOK'
  <2>1. syncRuns' \in [SyncRuns -> SyncRun]
    BY <1>3 DEF CrashRun, SyncRun, Phase
  <2> QED BY <1>3, <2>1 DEF CrashRun
<1>4. CASE ExpireLease
  BY <1>4 DEF ExpireLease, Connection
<1>5. CASE UserStep
  <2>1. CASE RemoveConnection
    BY <2>1 DEF RemoveConnection, Connection, ConnectionStatus
  <2>2. ASSUME NEW status \in ConnectionStatus, ChangeStatus(status) \/ AuthorizeAgain(status)
        PROVE  LeaseTypeOK'
    <3>1. connection' \in Connection /\ (connection'.expired => connection'.token # NoRun)
      BY <2>2 DEF ChangeStatus, AuthorizeAgain, Connection
    <3> QED BY <2>2, <3>1, LeaseTypeParts DEF ChangeStatus, AuthorizeAgain
  <2> QED BY <1>5, <2>1, <2>2 DEF UserStep, ConnectionStatus
<1>6. CASE UNCHANGED leaseVars
  BY <1>6 DEF leaseVars
<1> QED BY <1>1, <1>2, <1>3, <1>4, <1>5, <1>6 DEF LeaseNext

(* A run that begins to work takes a token that is free or past its end:    *)
(* whoever still works under that token has lapsed.                         *)
LEMMA LeaseStepInvariant ==
  ASSUME LeaseInv, [LeaseNext]_leaseVars
  PROVE  WorksUnderLease' /\ ExpiredMeansLapsed'
<1> USE SyncLeaseAssumption
    DEF LeaseInv, LeaseTypeOK, WorksUnderLease, ExpiredMeansLapsed, Working,
        Connection, SyncRun
<1>1. ASSUME NEW r \in SyncRuns, LeaseStep(r)
      PROVE  WorksUnderLease' /\ ExpiredMeansLapsed'
  <2>1. CASE CheckConnection(r)
    BY <2>1 DEF CheckConnection
  <2>2. CASE AcquireLease(r) /\ ~ LeaseFree
    BY <2>2 DEF AcquireLease
  <2>7. CASE AcquireLease(r) /\ LeaseFree
    <3>1. /\ connection'.token = r /\ ~ connection'.expired
          /\ lapsed' = lapsed
          /\ \A s \in SyncRuns \ {r} : Working(s)' = Working(s)
      BY <2>7 DEF AcquireLease
    <3>2. \A s \in SyncRuns \ {r} : Working(s) => s \in lapsed
      BY <2>7 DEF LeaseFree
    <3> QED BY <3>1, <3>2
  <2>3. CASE Heartbeat(r)
    BY <2>3 DEF Heartbeat
  <2>4. CASE HeartbeatFails(r)
    BY <2>4 DEF HeartbeatFails
  <2>5. CASE Conclude(r)
    BY <2>5 DEF Conclude
  <2>6. CASE ReleaseLease(r)
    BY <2>6 DEF ReleaseLease, Released
  <2> QED BY <1>1, <2>1, <2>2, <2>3, <2>4, <2>5, <2>6, <2>7 DEF LeaseStep
<1>2. ASSUME NEW r \in SyncRuns, AnyWork(r)
      PROVE  WorksUnderLease' /\ ExpiredMeansLapsed'
  <2>1. PICK result \in {"ok", "error", "threw"}, status \in ConnectionStatus :
          FinishWork(r, result, status)
    BY <1>2 DEF AnyWork
  <2> QED BY <2>1 DEF FinishWork
<1>3. ASSUME NEW r \in SyncRuns, CrashRun(r)
      PROVE  WorksUnderLease' /\ ExpiredMeansLapsed'
  BY <1>3 DEF CrashRun
<1>4. CASE ExpireLease
  BY <1>4 DEF ExpireLease
<1>5. CASE UserStep
  <2>1. CASE RemoveConnection
    BY <2>1 DEF RemoveConnection
  <2>2. ASSUME NEW status \in ConnectionStatus, ChangeStatus(status) \/ AuthorizeAgain(status)
        PROVE  WorksUnderLease' /\ ExpiredMeansLapsed'
    BY <2>2 DEF ChangeStatus, AuthorizeAgain
  <2> QED BY <1>5, <2>1, <2>2 DEF UserStep, ConnectionStatus
<1>6. CASE UNCHANGED leaseVars
  BY <1>6 DEF leaseVars
<1> QED BY <1>1, <1>2, <1>3, <1>4, <1>5, <1>6 DEF LeaseNext

LEMMA LeaseInvariant == LeaseSpec => []LeaseInv
<1>1. LeaseInv /\ [LeaseNext]_leaseVars => LeaseInv'
  BY LeaseStepType, LeaseStepInvariant DEF LeaseInv
<1> QED BY LeaseInitInvariant, <1>1, PTL DEF LeaseSpec

-----------------------------------------------------------------------------

(* A calendar sync's every step is a step of the lease, or leaves it alone. *)
LEMMA SyncStepKeepsLease == [SyncNext]_syncVars => [LeaseNext]_leaseVars
<1> SUFFICES ASSUME [SyncNext]_syncVars
             PROVE  [LeaseNext]_leaseVars
  OBVIOUS
<1>1. CASE (\E r \in SyncRuns : LeaseStep(r)) \/ ExpireLease \/ UserStep
  BY <1>1 DEF LeaseNext
<1>2. ASSUME NEW r \in SyncRuns, SucceedSync(r) \/ FailSync(r) \/ CrashRun(r)
      PROVE  LeaseNext
  <2>1. CASE SucceedSync(r)
    <3>1. FinishWork(r, "ok", "ACTIVE")
      BY <2>1 DEF SucceedSync
    <3>2. AnyWork(r)
      BY <3>1 DEF AnyWork, ConnectionStatus
    <3> QED BY <3>2 DEF LeaseNext
  <2>2. CASE FailSync(r)
    <3>1. AnyWork(r)
      BY <2>2 DEF AnyWork, FailSync
    <3> QED BY <3>1 DEF LeaseNext
  <2>3. CASE CrashRun(r)
    BY <2>3 DEF LeaseNext
  <2> QED BY <1>2, <2>1, <2>2, <2>3
<1>3. CASE UNCHANGED leaseVars
  BY <1>3
<1>4. CASE UNCHANGED syncVars
  BY <1>4 DEF syncVars
<1> QED BY <1>1, <1>2, <1>3, <1>4 DEF SyncNext

(* Calendar synchronization implements the lease: no step of the work, of   *)
(* its end or of the users takes, keeps or gives back the row's token other *)
(* than the lease's own operations do.                                      *)
THEOREM SyncImplementsLease == SyncSpec => LeaseSpec
<1>1. SyncInit => LeaseInit
  BY DEF SyncInit
<1> QED BY <1>1, SyncStepKeepsLease, PTL DEF SyncSpec, LeaseSpec

(* A run that synchronizes a calendar holds the lease, or its lease ran out *)
(* or was taken off while it worked; a crash, a late release or a heartbeat *)
(* that arrives after its time takes the lease from no other run.           *)
THEOREM SyncWorksUnderLease == SyncSpec => []WorksUnderLease
<1>1. LeaseInv => WorksUnderLease
  BY DEF LeaseInv
<1> QED BY <1>1, SyncImplementsLease, LeaseInvariant, PTL

(* The lease's row and runs have their types; a row without a token never   *)
(* counts as expired, so no token is taken twice.                           *)
THEOREM SyncLeaseTypeCorrect == SyncSpec => []LeaseTypeOK
<1>1. LeaseInv => LeaseTypeOK
  BY DEF LeaseInv
<1> QED BY <1>1, SyncImplementsLease, LeaseInvariant, PTL

-----------------------------------------------------------------------------
(* The etags given out so far that no unseen edit has                       *)
Seen == {e \in 0..tick : \A x \in unseen : remoteEvents[x].etag # e}

KnownRow(row, E)   == Live(row) => "etag" \in DOMAIN row /\ row.etag \in E
KnownRows(rows, E) == DOMAIN rows = MappingIds /\ \A m \in MappingIds : KnownRow(rows[m], E)

KnownTask(todo, E) ==
  \/ todo = Nothing
  \/ todo.op = "create" /\ KnownRow(todo.row, E)
  \/ todo.op = "update" /\ "etag" \in DOMAIN todo.new /\ todo.new.etag \in E
  \/ todo.op = "remove"

KnownPull(s, E) ==
  \/ s.pulled = NotRead /\ s.mine = NotRead /\ s.maps = NotRead /\ s.todo = Nothing
  \/ \A x \in DOMAIN s.pulled : s.pulled[x].etag \in E

(* Every etag that a run may yet write to a row or send to the provider     *)
KnownBy(s, E) ==
  /\ DOMAIN s = DOMAIN NewSync
  /\ KnownPull(s, E)
  /\ \/ s.maps = NotRead /\ s.todo = Nothing
     \/ KnownRows(s.maps, E)
  /\ KnownTask(s.todo, E)

(* The same of a run that has read what it needs and is at work             *)
Loaded(s, E) ==
  /\ DOMAIN s = DOMAIN NewSync
  /\ \A x \in DOMAIN s.pulled : s.pulled[x].etag \in E
  /\ KnownRows(s.maps, E)

EventsInv ==
  /\ tick \in Nat
  /\ DOMAIN remoteEvents = RemoteIds
  /\ \A x \in RemoteIds : remoteEvents[x].etag \in 0..tick
  /\ \A x, y \in RemoteIds :
       x # y /\ remoteEvents[x].etag = remoteEvents[y].etag => remoteEvents[x].etag = 0
  /\ unseen \subseteq RemoteIds
  /\ \A x \in unseen : remoteEvents[x].etag # 0 /\ remoteEvents[x].content # Unused

SeenInv ==
  /\ EventsInv
  /\ KnownRows(mappings, Seen)
  /\ DOMAIN syncs = SyncRuns
  /\ \A r \in SyncRuns : KnownBy(syncs[r], Seen)

(* A step that overwrites nothing unseen *)
Respects == \A x \in RemoteIds : remoteEvents'[x] # remoteEvents[x] => x \notin unseen

LEMMA SeenInitInvariant == SyncInit => SeenInv
<1> SUFFICES ASSUME SyncInit PROVE SeenInv
  OBVIOUS
<1>1. EventsInv /\ Seen = 0..tick
  BY DEF SyncInit, EventsInv, Seen
<1>2. KnownRows(mappings, Seen)
  BY <1>1 DEF SyncInit, KnownRows, KnownRow, Live
<1>3. KnownBy(NewSync, Seen)
  BY DEF KnownBy, KnownPull, KnownTask, NewSync
<1>4. DOMAIN syncs = SyncRuns /\ \A r \in SyncRuns : syncs[r] = NewSync
  BY DEF SyncInit
<1> QED BY <1>1, <1>2, <1>3, <1>4 DEF SeenInv

(* What was seen stays seen. *)
LEMMA KnownRowsGrow ==
  ASSUME NEW rows, NEW E, NEW F, E \subseteq F, KnownRows(rows, E)
  PROVE  KnownRows(rows, F)
BY DEF KnownRows, KnownRow

LEMMA KnownByGrows ==
  ASSUME NEW s, NEW E, NEW F, E \subseteq F
  PROVE  /\ KnownBy(s, E) => KnownBy(s, F)
         /\ Loaded(s, E) => Loaded(s, F)
BY KnownRowsGrow DEF KnownBy, KnownPull, KnownTask, KnownRow, Loaded

LEMMA RunGoesOn ==
  ASSUME SeenInv, EventsInv', Seen \subseteq Seen',
         NEW r \in SyncRuns, NEW s, KnownBy(s, Seen'), Progress(r, s),
         mappings' = mappings \/ KnownRows(mappings', Seen')
  PROVE  SeenInv'
<1>1. KnownRows(mappings', Seen')
  BY KnownRowsGrow DEF SeenInv
<1>2. DOMAIN syncs' = SyncRuns
  BY DEF Progress, SeenInv
<1>3. \A q \in SyncRuns : KnownBy(syncs'[q], Seen')
  <2> SUFFICES ASSUME NEW q \in SyncRuns PROVE KnownBy(syncs'[q], Seen')
    OBVIOUS
  <2>1. CASE q = r
    BY <2>1 DEF Progress, SeenInv
  <2>2. CASE q # r
    <3>1. syncs'[q] = syncs[q]
      BY <2>2 DEF Progress, SeenInv
    <3> QED BY <3>1, KnownByGrows DEF SeenInv
  <2> QED BY <2>1, <2>2
<1> QED BY <1>1, <1>2, <1>3 DEF SeenInv

(* A run writes an event at the provider. *)
LEMMA EventWritten ==
  ASSUME EventsInv, NEW x, x \notin unseen, NEW c,
         tick' = tick + 1, unseen' = unseen,
         remoteEvents' = [remoteEvents EXCEPT ![x] = [content |-> c, etag |-> tick + 1]]
  PROVE  EventsInv' /\ Seen \subseteq Seen' /\ tick + 1 \in Seen' /\ Respects
<1>1. /\ x \in RemoteIds => remoteEvents'[x].etag = tick + 1
      /\ \A y \in RemoteIds : y # x => remoteEvents'[y] = remoteEvents[y]
      /\ DOMAIN remoteEvents' = RemoteIds
  BY DEF EventsInv
<1>2. EventsInv'
  BY <1>1 DEF EventsInv
<1>3. Seen \subseteq Seen' /\ tick + 1 \in Seen'
  BY <1>1 DEF EventsInv, Seen
<1>4. Respects
  BY <1>1 DEF Respects
<1> QED BY <1>2, <1>3, <1>4

(* A step that touches neither the provider's events nor what is unseen     *)
LEMMA EventsUntouched ==
  ASSUME EventsInv, UNCHANGED <<remoteEvents, tick, unseen>>
  PROVE  EventsInv' /\ Seen' = Seen /\ Respects
BY DEF EventsInv, Seen, Respects

-----------------------------------------------------------------------------
(* Steps of a run.  What a run that has read everything keeps, whatever it  *)
(* puts in its three parts: the rest of the pull, its events, its task.     *)
LEMMA RestKnown ==
  ASSUME NEW r \in SyncRuns, NEW x, SeenInv, Settles(r, x)
  PROVE  /\ KnownBy(Rest(r, x), Seen) /\ Loaded(Rest(r, x), Seen)
         /\ syncs[r].pulled[x].etag \in Seen
<1>1. KnownBy(syncs[r], Seen)
  BY DEF SeenInv
<1>2. KnownRows(syncs[r].maps, Seen)
  BY <1>1 DEF KnownBy, Settles, Ready
<1>3. x \in DOMAIN syncs[r].pulled /\ \A y \in DOMAIN syncs[r].pulled : syncs[r].pulled[y].etag \in Seen
  BY <1>1 DEF KnownBy, KnownPull, Settles, Ready
<1>4. /\ DOMAIN Rest(r, x) = DOMAIN NewSync
      /\ Rest(r, x).pulled = Without(syncs[r].pulled, x)
      /\ Rest(r, x).maps = syncs[r].maps /\ Rest(r, x).todo = syncs[r].todo
  BY <1>1 DEF Rest, KnownBy, NewSync
<1>5. \A y \in DOMAIN Rest(r, x).pulled : Rest(r, x).pulled[y].etag \in Seen
  BY <1>3, <1>4 DEF Without
<1> QED BY <1>1, <1>2, <1>3, <1>4, <1>5 DEF KnownBy, KnownPull, Loaded

LEMMA TaskKnown ==
  ASSUME NEW s, NEW E, Loaded(s, E), NEW mine, NEW todo, KnownTask(todo, E)
  PROVE  KnownBy([s EXCEPT !.mine = mine, !.todo = todo], E)
         /\ KnownBy([s EXCEPT !.todo = todo], E)
BY DEF KnownBy, KnownPull, NewSync, Loaded

LEMMA PullStep ==
  ASSUME SeenInv, NEW r \in SyncRuns, PullChanges(r)
  PROVE  SeenInv' /\ Respects
<1>1. PICK listed \in {Since(cursor), {x \in RemoteIds : Live(remoteEvents[x].content)}} :
        /\ Progress(r, [syncs[r] EXCEPT !.upto = tick,
                          !.pulled = [x \in listed |-> remoteEvents[x]]])
        /\ unseen' = unseen \ listed
  BY DEF PullChanges
<1>2. listed \subseteq RemoteIds
  BY DEF Since
<1>3. remoteEvents' = remoteEvents /\ tick' = tick /\ mappings' = mappings
  BY DEF PullChanges
<1>4. EventsInv' /\ Seen \subseteq Seen'
  BY <1>1, <1>3 DEF SeenInv, EventsInv, Seen
<1>5. \A x \in listed : remoteEvents[x].etag \in Seen'
  BY <1>1, <1>2, <1>3 DEF SeenInv, EventsInv, Seen
<1> DEFINE s == [syncs[r] EXCEPT !.upto = tick, !.pulled = [x \in listed |-> remoteEvents[x]]]
<1>6. KnownBy(s, Seen')
  <2>1. KnownBy(syncs[r], Seen')
    BY <1>4, KnownByGrows DEF SeenInv
  <2>2. /\ DOMAIN s = DOMAIN NewSync /\ s.pulled = [x \in listed |-> remoteEvents[x]]
        /\ s.maps = syncs[r].maps /\ s.todo = syncs[r].todo
    BY <2>1 DEF KnownBy, NewSync
  <2> QED BY <1>5, <2>1, <2>2 DEF KnownBy, KnownPull
<1>7. SeenInv'
  <2> HIDE DEF s
  <2> QED BY <1>1, <1>3, <1>4, <1>6, RunGoesOn DEF s
<1> QED BY <1>3, <1>7 DEF Respects

LEMMA ReadStep ==
  ASSUME SeenInv, NEW r \in SyncRuns, ReadLocalEvents(r) \/ ReadMappings(r)
  PROVE  SeenInv' /\ Respects
<1>1. EventsInv' /\ Seen' = Seen /\ Respects /\ mappings' = mappings
  BY EventsUntouched DEF SeenInv, ReadLocalEvents, ReadMappings
<1>2. KnownBy(syncs[r], Seen) /\ syncs[r].pulled # NotRead
  BY DEF SeenInv, ReadLocalEvents, ReadMappings
<1>3. PICK s : Progress(r, s) /\ s \in {[syncs[r] EXCEPT !.mine = localEvents],
                                        [syncs[r] EXCEPT !.maps = mappings]}
  BY DEF ReadLocalEvents, ReadMappings
<1>4. KnownBy(s, Seen)
  BY <1>2, <1>3 DEF KnownBy, KnownPull, NewSync, SeenInv
<1> QED BY <1>1, <1>3, <1>4, RunGoesOn

(* A run that was left with a task by a write at the provider, or without. *)
LEMMA QuietStep ==
  ASSUME SeenInv, NEW r \in SyncRuns, NEW s, KnownBy(s, Seen), Progress(r, s),
         UNCHANGED <<remoteEvents, tick, mappings, unseen>>
  PROVE  SeenInv' /\ Respects
<1>1. EventsInv' /\ Seen' = Seen /\ Respects
  BY EventsUntouched DEF SeenInv
<1> QED BY <1>1, RunGoesOn

LEMMA WriteStep ==
  ASSUME SeenInv, NEW r \in SyncRuns, NEW s, Loaded(s, Seen),
         NEW x, x \notin unseen, NEW c,
         tick' = tick + 1, unseen' = unseen, mappings' = mappings,
         remoteEvents' = [remoteEvents EXCEPT ![x] = [content |-> c, etag |-> tick + 1]],
         NEW todo, \A E : tick + 1 \in E => KnownTask(todo, E),
         Progress(r, [s EXCEPT !.todo = todo])
  PROVE  SeenInv' /\ Respects
<1>1. EventsInv' /\ Seen \subseteq Seen' /\ tick + 1 \in Seen' /\ Respects
  BY EventWritten DEF SeenInv
<1>2. Loaded(s, Seen')
  BY <1>1, KnownByGrows
<1>3. KnownBy([s EXCEPT !.todo = todo], Seen')
  BY <1>1, <1>2, TaskKnown
<1> QED BY <1>1, <1>3, RunGoesOn

(* A change is pushed only to the version that the run knows. *)
LEMMA PushChangedStep ==
  ASSUME SeenInv, NEW r \in SyncRuns, NEW s, Loaded(s, Seen),
         NEW m \in MappingIds, KnownRow(s.maps[m], Seen), Live(s.maps[m]),
         PushChanged(r, s, m)
  PROVE  SeenInv' /\ Respects
<1> DEFINE x == s.maps[m].remote
           todo == UpdateState(m, [remote |-> x, etag |-> tick + 1,
                                   hash |-> s.mine[s.maps[m].local]])
<1>1. s.maps[m].etag \in Seen /\ remoteEvents[x].etag = s.maps[m].etag
  BY DEF KnownRow, PushChanged
<1>2. x \notin unseen
  BY <1>1 DEF Seen
<1>3. \A E : tick + 1 \in E => KnownTask(todo, E)
  BY DEF KnownTask, UpdateState
<1>4. /\ Progress(r, [s EXCEPT !.todo = todo])
      /\ tick' = tick + 1 /\ unseen' = unseen /\ mappings' = mappings
      /\ remoteEvents' = [remoteEvents EXCEPT ![x] =
                            [content |-> s.mine[s.maps[m].local], etag |-> tick + 1]]
  BY DEF PushChanged
<1> QED
  <2> HIDE DEF x, todo
  <2> QED BY <1>2, <1>3, <1>4, WriteStep

(* A new event gets an id under which nobody can have edited anything.     *)
LEMMA PushNewStep ==
  ASSUME SeenInv, NEW r \in SyncRuns, NEW s, Loaded(s, Seen),
         NEW l, NEW todo,
         \A y \in RemoteIds : \A E : tick + 1 \in E => KnownTask(todo[y], E),
         PushNew(r, s, l, todo)
  PROVE  SeenInv' /\ Respects
<1>1. PICK x \in RemoteIds :
        /\ remoteEvents[x].content = Unused
        /\ tick' = tick + 1
        /\ remoteEvents' = [remoteEvents EXCEPT ![x] = [content |-> s.mine[l], etag |-> tick + 1]]
        /\ Progress(r, [s EXCEPT !.todo = todo[x]])
        /\ unseen' = unseen /\ mappings' = mappings
  BY DEF PushNew
<1>2. x \notin unseen
  BY <1>1 DEF SeenInv, EventsInv
<1> DEFINE task == todo[x]
<1>3. \A E : tick + 1 \in E => KnownTask(task, E)
  OBVIOUS
<1>4. Progress(r, [s EXCEPT !.todo = task])
  BY <1>1
<1> QED
  <2> HIDE DEF task
  <2> QED BY <1>1, <1>2, <1>3, <1>4, WriteStep

LEMMA PullDeletionStep ==
  ASSUME SeenInv, NEW r \in SyncRuns, NEW x \in RemoteIds, PullDeletion(r, x)
  PROVE  SeenInv' /\ Respects
<1> DEFINE s == Rest(r, x)
<1>1. Loaded(s, Seen)
  BY RestKnown DEF PullDeletion
<1>2. CASE MappedTo(s, x) = {}
  <2>1. KnownBy(s, Seen)
    BY RestKnown DEF PullDeletion
  <2>2. Progress(r, s) /\ UNCHANGED <<remoteEvents, tick, mappings, unseen>>
    BY <1>2 DEF PullDeletion
  <2> HIDE DEF s
  <2> QED BY <2>1, <2>2, QuietStep
<1>3. ASSUME NEW m \in MappedTo(s, x), NEW mine,
             \/ Progress(r, [s EXCEPT !.todo = RemoveState(m)])
             \/ Progress(r, [s EXCEPT !.mine = mine, !.todo = RemoveState(m)]),
             UNCHANGED <<remoteEvents, tick, mappings, unseen>>
      PROVE  SeenInv' /\ Respects
  <2>1. KnownTask(RemoveState(m), Seen)
    BY DEF KnownTask, RemoveState
  <2>2. /\ KnownBy([s EXCEPT !.todo = RemoveState(m)], Seen)
        /\ KnownBy([s EXCEPT !.mine = mine, !.todo = RemoveState(m)], Seen)
    <3> HIDE DEF s
    <3> QED BY <1>1, <2>1, TaskKnown
  <2> QED
    <3> HIDE DEF s
    <3> QED BY <1>3, <2>2, QuietStep
<1>4. ASSUME NEW m \in MappedTo(s, x),
             PushNew(r, s, s.maps[m].local, [y \in RemoteIds |->
               UpdateState(m, [remote |-> y, etag |-> tick + 1,
                               hash |-> s.mine[s.maps[m].local]])])
      PROVE  SeenInv' /\ Respects
  <2> DEFINE todo == [y \in RemoteIds |->
               UpdateState(m, [remote |-> y, etag |-> tick + 1,
                               hash |-> s.mine[s.maps[m].local]])]
  <2>1. \A y \in RemoteIds : \A E : tick + 1 \in E => KnownTask(todo[y], E)
    BY DEF KnownTask, UpdateState
  <2> QED
    <3> HIDE DEF s, todo
    <3> QED BY <1>1, <1>4, <2>1, PushNewStep DEF todo
<1> QED BY <1>2, <1>3, <1>4 DEF PullDeletion

LEMMA PullNewStep ==
  ASSUME SeenInv, NEW r \in SyncRuns, NEW x \in RemoteIds, PullNew(r, x)
  PROVE  SeenInv' /\ Respects
<1> DEFINE s == Rest(r, x)
           it == syncs[r].pulled[x]
<1>1. Loaded(s, Seen) /\ it.etag \in Seen
  BY RestKnown DEF PullNew
<1>2. PICK l \in LocalIds :
        Progress(r, [s EXCEPT !.mine[l] = it.content,
          !.todo = IF MappedTo(s, x) = {}
                   THEN CreateState([local |-> l, remote |-> x, etag |-> it.etag,
                                     hash |-> it.content])
                   ELSE UpdateState(CHOOSE m \in MappedTo(s, x) : TRUE,
                          [local |-> l, etag |-> it.etag, hash |-> it.content])])
  BY DEF PullNew
<1> DEFINE mine == [s.mine EXCEPT ![l] = it.content]
           todo == IF MappedTo(s, x) = {}
                   THEN CreateState([local |-> l, remote |-> x, etag |-> it.etag,
                                     hash |-> it.content])
                   ELSE UpdateState(CHOOSE m \in MappedTo(s, x) : TRUE,
                          [local |-> l, etag |-> it.etag, hash |-> it.content])
<1>3. KnownTask(todo, Seen)
  BY <1>1 DEF KnownTask, CreateState, UpdateState, KnownRow
<1>4. KnownBy([s EXCEPT !.mine = mine, !.todo = todo], Seen)
  <2> HIDE DEF s, mine, todo
  <2> QED BY <1>1, <1>3, TaskKnown
<1>5. UNCHANGED <<remoteEvents, tick, mappings, unseen>>
  BY DEF PullNew
<1>6. Progress(r, [s EXCEPT !.mine = mine, !.todo = todo])
  BY <1>2
<1> QED
  <2> HIDE DEF s, mine, todo
  <2> QED BY <1>4, <1>5, <1>6, QuietStep

LEMMA PullChangeStep ==
  ASSUME SeenInv, NEW r \in SyncRuns, NEW x \in RemoteIds, NEW resolution,
         PullChange(r, x, resolution)
  PROVE  SeenInv' /\ Respects
<1> DEFINE s == Rest(r, x)
           it == syncs[r].pulled[x]
<1>1. Loaded(s, Seen) /\ it.etag \in Seen
  BY RestKnown DEF PullChange
<1>2. PICK m \in MappedTo(s, x) :
        LET l == s.maps[m].local IN
        \/ /\ Progress(r, [s EXCEPT !.todo = UpdateState(m, [etag |-> it.etag])])
           /\ UNCHANGED <<remoteEvents, tick, mappings, unseen>>
        \/ PushChanged(r, s, m)
        \/ /\ Progress(r, [s EXCEPT !.mine[l] = it.content,
                  !.todo = UpdateState(m, [etag |-> it.etag, hash |-> it.content])])
           /\ UNCHANGED <<remoteEvents, tick, mappings, unseen>>
  BY DEF PullChange
<1> DEFINE mine == [s.mine EXCEPT ![s.maps[m].local] = it.content]
           kept == UpdateState(m, [etag |-> it.etag])
           taken == UpdateState(m, [etag |-> it.etag, hash |-> it.content])
<1>3. KnownTask(kept, Seen) /\ KnownTask(taken, Seen)
  BY <1>1 DEF KnownTask, UpdateState
<1>4. /\ KnownBy([s EXCEPT !.todo = kept], Seen)
      /\ KnownBy([s EXCEPT !.mine = mine, !.todo = taken], Seen)
  <2> HIDE DEF s, mine, kept, taken
  <2> QED BY <1>1, <1>3, TaskKnown
<1>5. CASE PushChanged(r, s, m)
  <2>1. m \in MappingIds /\ Live(s.maps[m]) /\ KnownRow(s.maps[m], Seen)
    BY <1>1 DEF MappedTo, KnownRows, Loaded
  <2> HIDE DEF s
  <2> QED BY <1>1, <1>5, <2>1, PushChangedStep
<1>6. CASE Progress(r, [s EXCEPT !.todo = kept])
           /\ UNCHANGED <<remoteEvents, tick, mappings, unseen>>
  <2> HIDE DEF s, kept
  <2> QED BY <1>4, <1>6, QuietStep
<1>7. CASE Progress(r, [s EXCEPT !.mine = mine, !.todo = taken])
           /\ UNCHANGED <<remoteEvents, tick, mappings, unseen>>
  <2> HIDE DEF s, mine, taken
  <2> QED BY <1>4, <1>7, QuietStep
<1> QED BY <1>2, <1>5, <1>6, <1>7

(* What a run holds once everything it pulled is settled *)
LEMMA SettledKnown ==
  ASSUME SeenInv, NEW r \in SyncRuns, AllPulled(r)
  PROVE  Loaded(syncs[r], Seen)
BY DEF SeenInv, KnownBy, AllPulled, Ready, Loaded

LEMMA PushEventStep ==
  ASSUME SeenInv, NEW r \in SyncRuns, NEW l \in LocalIds, PushEvent(r, l)
  PROVE  SeenInv' /\ Respects
<1> DEFINE s == syncs[r]
           todo == [y \in RemoteIds |->
             CreateState([local |-> l, remote |-> y, etag |-> tick + 1, hash |-> s.mine[l]])]
<1>1. Loaded(s, Seen)
  BY SettledKnown DEF PushEvent
<1>2. \A y \in RemoteIds : \A E : tick + 1 \in E => KnownTask(todo[y], E)
  BY DEF KnownTask, CreateState, KnownRow
<1>3. CASE PushNew(r, s, l, todo)
  <2> HIDE DEF s, todo
  <2> QED BY <1>1, <1>2, <1>3, PushNewStep
<1>4. ASSUME NEW m \in MappedBy(s, l), PushChanged(r, s, m)
      PROVE  SeenInv' /\ Respects
  <2>1. m \in MappingIds /\ Live(s.maps[m]) /\ KnownRow(s.maps[m], Seen)
    BY <1>1 DEF MappedBy, KnownRows, Loaded
  <2> HIDE DEF s
  <2> QED BY <1>1, <1>4, <2>1, PushChangedStep
<1> QED BY <1>3, <1>4 DEF PushEvent

LEMMA RemoveThereStep ==
  ASSUME SeenInv, NEW r \in SyncRuns, NEW m \in MappingIds, RemoveThere(r, m)
  PROVE  SeenInv' /\ Respects
<1> DEFINE s == syncs[r]
           x == s.maps[m].remote
           todo == RemoveState(m)
<1>1. Loaded(s, Seen)
  BY SettledKnown DEF RemoveThere
<1>2. s.maps[m].etag \in Seen /\ remoteEvents[x].etag = s.maps[m].etag
  BY <1>1 DEF RemoveThere, ToRemove, KnownRows, KnownRow, Loaded
<1>3. x \notin unseen
  BY <1>2 DEF Seen
<1>4. \A E : tick + 1 \in E => KnownTask(todo, E)
  BY DEF KnownTask, RemoveState
<1>5. /\ Progress(r, [s EXCEPT !.todo = todo])
      /\ tick' = tick + 1 /\ unseen' = unseen /\ mappings' = mappings
      /\ remoteEvents' = [remoteEvents EXCEPT ![x] = [content |-> Gone, etag |-> tick + 1]]
  BY DEF RemoveThere
<1> HIDE DEF s, x, todo
<1> QED BY <1>1, <1>3, <1>4, <1>5, WriteStep

(* The row that is saved carries the task's etag, whatever else the row has *)
(* become since the run read it.                                            *)
LEMMA SaveMappingStep ==
  ASSUME SeenInv, NEW r \in SyncRuns, SaveMapping(r)
  PROVE  SeenInv' /\ Respects
<1> DEFINE s == syncs[r]
           t == s.todo
<1>1. /\ KnownBy(s, Seen) /\ KnownRows(mappings, Seen)
  BY DEF SeenInv
<1> DEFINE Stored(i) == CASE t.op = "create" -> t.row
                          [] t.op = "update" -> Merged(t.new, mappings[i])
                          [] t.op = "remove" -> Gone
<1>2. PICK m \in MappingIds :
        /\ IF t.op = "create" THEN mappings[m] = Unused
           ELSE m = t.mapping /\ Live(mappings[m])
        /\ mappings' = [mappings EXCEPT ![m] = Stored(m)]
        /\ Progress(r, [s EXCEPT !.maps[m] = Stored(m), !.todo = Nothing])
  BY DEF SaveMapping
<1> DEFINE saved == Stored(m)
<1>3. KnownTask(t, Seen) /\ t # Nothing
  BY <1>1 DEF KnownBy, SaveMapping
<1>4. KnownRow(saved, Seen)
  <2>1. CASE t.op = "create"
    BY <1>3, <2>1 DEF KnownTask
  <2>2. CASE t.op = "update"
    <3>1. saved = Merged(t.new, mappings[m]) /\ Live(mappings[m])
      BY <1>2, <2>2
    <3>2. "etag" \in DOMAIN mappings[m] /\ "etag" \in DOMAIN t.new /\ t.new.etag \in Seen
      BY <1>1, <1>3, <2>2, <3>1 DEF KnownRows, KnownRow, KnownTask
    <3>3. saved.etag = t.new.etag /\ "etag" \in DOMAIN saved
      BY <3>1, <3>2 DEF Merged
    <3> QED BY <3>2, <3>3 DEF KnownRow
  <2>3. CASE t.op = "remove"
    BY <2>3 DEF KnownRow, Live
  <2> QED BY <1>3, <2>1, <2>2, <2>3 DEF KnownTask
<1>5. KnownRows(mappings', Seen)
  BY <1>1, <1>2, <1>4 DEF KnownRows
<1> DEFINE maps == [s.maps EXCEPT ![m] = saved]
           new == [s EXCEPT !.maps = maps, !.todo = Nothing]
<1>6. Progress(r, new)
  BY <1>2
<1>7. UNCHANGED <<remoteEvents, tick, unseen>>
  BY DEF SaveMapping
<1>8. KnownBy(new, Seen)
  <2>1. /\ DOMAIN new = DOMAIN NewSync /\ new.maps = maps /\ new.todo = Nothing
        /\ new.pulled = s.pulled /\ new.mine = s.mine
    <3> HIDE DEF s, maps
    <3> QED BY <1>1 DEF KnownBy, NewSync
  <2>2. KnownRows(s.maps, Seen) /\ KnownPull(s, Seen) /\ ~ (s.maps = NotRead /\ s.todo = Nothing)
    BY <1>1, <1>3 DEF KnownBy
  <2>3. KnownRows(maps, Seen)
    <3> HIDE DEF s, t
    <3> QED BY <1>4, <2>2 DEF KnownRows
  <2>4. KnownPull(new, Seen)
    <3> HIDE DEF s, maps, new
    <3> QED BY <1>3, <2>1, <2>2 DEF KnownPull, t
  <2> HIDE DEF s, maps, new
  <2> QED BY <2>1, <2>3, <2>4 DEF KnownBy, KnownTask
<1>9. EventsInv' /\ Seen' = Seen /\ Respects
  BY <1>7, EventsUntouched DEF SeenInv
<1> HIDE DEF s, t, maps, new
<1> QED BY <1>5, <1>6, <1>8, <1>9, RunGoesOn

LEMMA SaveCursorStep ==
  ASSUME SeenInv, NEW r \in SyncRuns, SaveCursor(r)
  PROVE  SeenInv' /\ Respects
<1> DEFINE s == syncs[r]
           new == [s EXCEPT !.done = TRUE]
<1>1. KnownBy(s, Seen)
  BY DEF SeenInv
<1>2. KnownBy(new, Seen)
  <2> HIDE DEF s
  <2> QED BY <1>1 DEF KnownBy, KnownPull, NewSync
<1>3. Progress(r, new) /\ UNCHANGED <<remoteEvents, tick, mappings, unseen>>
  BY DEF SaveCursor
<1> HIDE DEF new
<1> QED BY <1>2, <1>3, QuietStep

LEMMA RunStepKeepsSeen ==
  ASSUME SeenInv, NEW r \in SyncRuns, SyncStep(r)
  PROVE  SeenInv' /\ Respects
<1>1. CASE PullChanges(r)
  BY <1>1, PullStep
<1>2. CASE ReadLocalEvents(r) \/ ReadMappings(r)
  BY <1>2, ReadStep
<1>3. ASSUME NEW x \in RemoteIds, PullDeletion(r, x)
      PROVE  SeenInv' /\ Respects
  BY <1>3, PullDeletionStep
<1>4. ASSUME NEW x \in RemoteIds, PullNew(r, x)
      PROVE  SeenInv' /\ Respects
  BY <1>4, PullNewStep
<1>5. ASSUME NEW x \in RemoteIds, NEW resolution, PullChange(r, x, resolution)
      PROVE  SeenInv' /\ Respects
  BY <1>5, PullChangeStep
<1>6. ASSUME NEW l \in LocalIds, PushEvent(r, l)
      PROVE  SeenInv' /\ Respects
  BY <1>6, PushEventStep
<1>7. ASSUME NEW m \in MappingIds, RemoveThere(r, m)
      PROVE  SeenInv' /\ Respects
  BY <1>7, RemoveThereStep
<1>8. CASE SaveMapping(r)
  BY <1>8, SaveMappingStep
<1>9. CASE SaveCursor(r)
  BY <1>9, SaveCursorStep
<1> QED BY <1>1, <1>2, <1>3, <1>4, <1>5, <1>6, <1>7, <1>8, <1>9 DEF SyncStep

-----------------------------------------------------------------------------
(* Users and the ends of runs *)

LEMMA EditKeepsSeen ==
  ASSUME SeenInv, EditStep
  PROVE  SeenInv'
<1>1. ASSUME NEW l \in LocalIds, NEW c, EditHere(l, c)
      PROVE  SeenInv'
  <2>1. EventsInv' /\ Seen' = Seen
    BY <1>1, EventsUntouched DEF SeenInv, EditHere
  <2> QED BY <1>1, <2>1 DEF SeenInv, EditHere
<1>2. ASSUME NEW x \in RemoteIds, NEW c \in Contents \cup {Gone}, EditThere(x, c)
      PROVE  SeenInv'
  <2>1. /\ remoteEvents'[x] = [content |-> c, etag |-> tick + 1]
        /\ \A y \in RemoteIds : y # x => remoteEvents'[y] = remoteEvents[y]
        /\ DOMAIN remoteEvents' = RemoteIds
        /\ tick' = tick + 1 /\ unseen' = unseen \cup {x}
        /\ mappings' = mappings /\ syncs' = syncs
    BY <1>2 DEF EditThere, SeenInv, EventsInv
  <2>2. c # Unused
    BY CalendarSyncAssumption
  <2>3. EventsInv'
    BY <2>1, <2>2 DEF EventsInv, SeenInv
  <2>4. Seen \subseteq Seen'
    BY <2>1 DEF Seen, EventsInv, SeenInv
  <2>5. KnownRows(mappings', Seen')
    BY <2>1, <2>4, KnownRowsGrow DEF SeenInv
  <2>6. \A r \in SyncRuns : KnownBy(syncs'[r], Seen')
    BY <2>1, <2>4, KnownByGrows DEF SeenInv
  <2> QED BY <2>1, <2>3, <2>5, <2>6 DEF SeenInv
<1> QED BY <1>1, <1>2 DEF EditStep

LEMMA ForgetKeepsSeen ==
  ASSUME SeenInv, NEW r \in SyncRuns, Forget(r)
  PROVE  SeenInv' /\ Respects
<1>1. KnownBy(NewSync, Seen)
  BY DEF KnownBy, KnownPull, KnownTask, NewSync
<1>2. Progress(r, NewSync) /\ UNCHANGED <<remoteEvents, tick, mappings, unseen>>
  BY DEF Progress, Forget
<1> QED BY <1>1, <1>2, QuietStep

LEMMA RunStepMakesNoEdit ==
  ASSUME NEW r \in SyncRuns, SyncStep(r)
  PROVE  edits' = edits
<1>1. /\ \A s, m : PushChanged(r, s, m) => edits' = edits
      /\ \A s, l, todo : PushNew(r, s, l, todo) => edits' = edits
  BY DEF PushChanged, PushNew, users
<1>2. \A x \in RemoteIds : PullDeletion(r, x) => edits' = edits
  BY <1>1 DEF PullDeletion, users
<1>3. \A x \in RemoteIds : \A resolution : PullChange(r, x, resolution) => edits' = edits
  BY <1>1 DEF PullChange, users
<1>4. \A l \in LocalIds : PushEvent(r, l) => edits' = edits
  BY <1>1 DEF PushEvent
<1>5. /\ \A x \in RemoteIds : PullNew(r, x) => edits' = edits
      /\ \A m \in MappingIds : RemoveThere(r, m) => edits' = edits
      /\ SaveMapping(r) \/ SaveCursor(r) => edits' = edits
      /\ PullChanges(r) \/ ReadLocalEvents(r) \/ ReadMappings(r) => edits' = edits
  BY DEF PullNew, RemoveThere, SaveMapping, SaveCursor, PullChanges, ReadLocalEvents,
         ReadMappings, users
<1> QED BY <1>2, <1>3, <1>4, <1>5 DEF SyncStep

LEMMA SeenStepInvariant ==
  ASSUME SeenInv, edits \in Nat, [SyncNext]_syncVars
  PROVE  SeenInv' /\ edits' \in Nat /\ (edits' = edits => Respects)
<1>1. CASE UNCHANGED calendarVars
  <2>1. EventsInv' /\ Seen' = Seen /\ Respects
    BY <1>1, EventsUntouched DEF SeenInv, calendarVars
  <2> QED BY <1>1, <2>1 DEF SeenInv, calendarVars
<1>2. ASSUME NEW r \in SyncRuns, Forget(r)
      PROVE  SeenInv' /\ edits' \in Nat /\ Respects
  <2>1. edits' = edits
    BY <1>2 DEF Forget
  <2> QED BY <1>2, <2>1, ForgetKeepsSeen
<1>3. ASSUME NEW r \in SyncRuns, SyncStep(r)
      PROVE  SeenInv' /\ edits' \in Nat /\ Respects
  <2>1. edits' = edits
    BY <1>3, RunStepMakesNoEdit
  <2> QED BY <1>3, <2>1, RunStepKeepsSeen
<1>4. CASE EditStep
  <2>1. edits' = edits + 1
    BY <1>4 DEF EditStep, EditHere, EditThere
  <2> QED BY <1>4, <2>1, EditKeepsSeen
<1> QED BY <1>1, <1>2, <1>3, <1>4 DEF SyncNext, syncVars

(* A run never overwrites or deletes an edit at the provider that no run    *)
(* has pulled yet: not with a stale mapping, not with what it read before   *)
(* it lost the lease, and not when its mappings were rewritten under it.    *)
THEOREM RunsRespectEdits == SyncSpec => NoBlindOverwrite
<1> DEFINE Inv == SeenInv /\ edits \in Nat
<1>1. SyncInit => Inv
  BY SeenInitInvariant DEF SyncInit
<1>2. Inv /\ [SyncNext]_syncVars => Inv'
  BY SeenStepInvariant
<1>3. Inv /\ [SyncNext]_syncVars =>
        [edits' = edits =>
           \A x \in RemoteIds : remoteEvents'[x] # remoteEvents[x] => x \notin unseen]_syncVars
  BY SeenStepInvariant DEF Respects
<1> HIDE DEF Inv
<1> QED BY <1>1, <1>2, <1>3, PTL DEF SyncSpec, NoBlindOverwrite

-----------------------------------------------------------------------------
(* Types *)

(* What a run reads, and the row it is about to save, have their types.     *)
PulledTyped(p) == DOMAIN p \subseteq RemoteIds /\ p \in [DOMAIN p -> Remote]
MineTyped(e)   == e \in [LocalIds -> Maybe(Contents)]
RowsTyped(f)   == f \in [MappingIds -> Maybe(Mapping)]

UpdateTyped(new) ==
  /\ "local"  \in DOMAIN new => new.local \in LocalIds
  /\ "remote" \in DOMAIN new => new.remote \in RemoteIds
  /\ "etag"   \in DOMAIN new => new.etag \in 0..MaxTick
  /\ "hash"   \in DOMAIN new => new.hash \in Contents

TaskTyped(todo) ==
  \/ todo = Nothing
  \/ todo.op = "create" /\ todo.row \in Mapping
  \/ todo.op = "update" /\ todo.mapping \in MappingIds /\ UpdateTyped(todo.new)
  \/ todo.op = "remove" /\ todo.mapping \in MappingIds

SyncTyped(s, top) ==
  /\ DOMAIN s = DOMAIN NewSync
  /\ s.upto \in 0..top
  /\ s.pulled # NotRead => PulledTyped(s.pulled)
  /\ s.mine # NotRead => PulledTyped(s.pulled) /\ MineTyped(s.mine)
  /\ s.maps # NotRead => PulledTyped(s.pulled) /\ RowsTyped(s.maps)
  /\ TaskTyped(s.todo)
  /\ s.todo # Nothing => RowsTyped(s.maps) /\ PulledTyped(s.pulled)

(* The same of a run that has read everything                               *)
WorkTyped(s, top) ==
  /\ DOMAIN s = DOMAIN NewSync
  /\ s.upto \in 0..top
  /\ PulledTyped(s.pulled) /\ MineTyped(s.mine) /\ RowsTyped(s.maps)

StoresTyped ==
  /\ MineTyped(localEvents)
  /\ remoteEvents \in [RemoteIds -> Remote]
  /\ tick \in 0..MaxTick
  /\ \A x \in RemoteIds : remoteEvents[x].etag <= tick
  /\ RowsTyped(mappings)
  /\ cursor \in 0..tick
  /\ pullOnly \in BOOLEAN
  /\ edits \in 0..MaxEdits
  /\ unseen \subseteq RemoteIds /\ missed \subseteq RemoteIds
  /\ disturbed \subseteq SyncRuns

SyncsTyped == DOMAIN syncs = SyncRuns /\ \A r \in SyncRuns : SyncTyped(syncs[r], tick)

CalendarTyped == StoresTyped /\ SyncsTyped

LEMMA NewSyncTyped ==
  ASSUME NEW top \in Nat
  PROVE  SyncTyped(NewSync, top)
BY DEF SyncTyped, NewSync, TaskTyped

LEMMA CalendarInitTyped == SyncInit => CalendarTyped
<1> SUFFICES ASSUME SyncInit PROVE CalendarTyped
  OBVIOUS
<1> USE CalendarSyncAssumption
<1>0. /\ pullOnly \in BOOLEAN /\ edits = 0
      /\ unseen = {} /\ missed = {} /\ disturbed = {}
      /\ syncs = [r \in SyncRuns |-> NewSync]
  BY DEF SyncInit
<1>1. ASSUME localEvents = [l \in LocalIds |-> Unused],
             remoteEvents = [x \in RemoteIds |-> [content |-> Unused, etag |-> 0]],
             mappings = [m \in MappingIds |-> Unused],
             tick = 0, cursor = 0
      PROVE  StoresTyped
  <2>1. RowsTyped(mappings) /\ MineTyped(localEvents)
    BY <1>1 DEF RowsTyped, MineTyped, Maybe
  <2>2. remoteEvents \in [RemoteIds -> Remote] /\ \A y \in RemoteIds : remoteEvents[y].etag <= tick
    BY <1>1 DEF Remote, Maybe
  <2> QED BY <1>0, <1>1, <2>1, <2>2 DEF StoresTyped
<1>2. ASSUME NEW l \in LocalIds, NEW x \in RemoteIds, NEW m \in MappingIds, NEW c \in Contents,
             localEvents = [k \in LocalIds |-> IF k = l THEN c ELSE Unused],
             remoteEvents = [y \in RemoteIds |-> IF y = x THEN [content |-> c, etag |-> 1]
                                               ELSE [content |-> Unused, etag |-> 0]],
             mappings = [n \in MappingIds |->
                         IF n = m THEN [local |-> l, remote |-> x, etag |-> 1, hash |-> c]
                         ELSE Unused],
             tick = 1, cursor = 1
      PROVE  StoresTyped
  <2>1. [local |-> l, remote |-> x, etag |-> 1, hash |-> c] \in Mapping
    BY DEF Mapping
  <2>2. RowsTyped(mappings)
    BY <1>2, <2>1 DEF RowsTyped, Maybe
  <2>3. MineTyped(localEvents)
    BY <1>2 DEF MineTyped, Maybe
  <2>4. remoteEvents \in [RemoteIds -> Remote] /\ \A y \in RemoteIds : remoteEvents[y].etag <= tick
    BY <1>2 DEF Remote, Maybe
  <2> QED BY <1>0, <1>2, <2>2, <2>3, <2>4 DEF StoresTyped
<1>3. StoresTyped
  BY <1>1, <1>2 DEF SyncInit
<1>4. tick \in Nat
  BY <1>3 DEF StoresTyped
<1> QED BY <1>0, <1>3, <1>4, NewSyncTyped DEF CalendarTyped, SyncsTyped

LEMMA RunGoesOnTyped ==
  ASSUME CalendarTyped, StoresTyped', tick <= tick',
         NEW r \in SyncRuns, NEW s, SyncTyped(s, tick'), Progress(r, s)
  PROVE  CalendarTyped'
<1>1. \A q \in SyncRuns : SyncTyped(syncs[q], tick')
  BY DEF CalendarTyped, StoresTyped, SyncsTyped, SyncTyped
<1>2. DOMAIN syncs' = SyncRuns /\ \A q \in SyncRuns : SyncTyped(syncs'[q], tick')
  <2>1. DOMAIN syncs' = SyncRuns /\ syncs'[r] = s
    BY DEF Progress, CalendarTyped, SyncsTyped
  <2>2. \A q \in SyncRuns : q # r => syncs'[q] = syncs[q]
    BY DEF Progress, CalendarTyped, SyncsTyped
  <2> QED BY <1>1, <2>1, <2>2
<1> QED BY <1>2 DEF CalendarTyped, SyncsTyped

LEMMA EventWrittenTyped ==
  ASSUME StoresTyped, NEW x \in RemoteIds, NEW c \in Maybe(Contents), tick < MaxTick,
         tick' = tick + 1,
         remoteEvents' = [remoteEvents EXCEPT ![x] = [content |-> c, etag |-> tick + 1]],
         UNCHANGED <<localEvents, mappings, cursor, pullOnly>>,
         edits' \in 0..MaxEdits, unseen' \subseteq RemoteIds, missed' \subseteq RemoteIds,
         disturbed' \subseteq SyncRuns
  PROVE  StoresTyped' /\ tick <= tick'
<1>1. tick \in 0..MaxTick /\ MaxTick \in Nat /\ tick + 1 \in 0..MaxTick
  BY CalendarSyncAssumption DEF StoresTyped
<1>2. [content |-> c, etag |-> tick + 1] \in Remote
  BY <1>1 DEF Remote
<1>3. remoteEvents' \in [RemoteIds -> Remote]
  BY <1>2 DEF StoresTyped
<1>4. \A y \in RemoteIds : remoteEvents'[y].etag <= tick'
  <2> SUFFICES ASSUME NEW y \in RemoteIds PROVE remoteEvents'[y].etag <= tick'
    OBVIOUS
  <2>1. CASE y = x
    BY <1>1, <2>1 DEF StoresTyped
  <2>2. CASE y # x
    <3>1. remoteEvents'[y] = remoteEvents[y] /\ remoteEvents[y].etag \in Int
      BY <2>2, <1>3 DEF StoresTyped, Remote
    <3> QED BY <1>1, <3>1 DEF StoresTyped
  <2> QED BY <2>1, <2>2
<1> QED BY <1>1, <1>3, <1>4 DEF StoresTyped, MineTyped, RowsTyped

(* Steps that leave the provider's events and the cursor alone              *)
LEMMA StoresKept ==
  ASSUME StoresTyped, UNCHANGED <<remoteEvents, tick, cursor, pullOnly, edits>>,
         MineTyped(localEvents'), RowsTyped(mappings'),
         unseen' \subseteq RemoteIds, missed' \subseteq RemoteIds, disturbed' \subseteq SyncRuns
  PROVE  StoresTyped' /\ tick <= tick'
BY DEF StoresTyped

(* What a run at work has read                                              *)
LEMMA ReadyTyped ==
  ASSUME CalendarTyped, NEW r \in SyncRuns, Ready(r)
  PROVE  WorkTyped(syncs[r], tick) /\ syncs[r].todo = Nothing
BY DEF CalendarTyped, SyncsTyped, SyncTyped, WorkTyped, Ready

LEMMA RestTyped ==
  ASSUME CalendarTyped, NEW r \in SyncRuns, NEW x, Settles(r, x)
  PROVE  /\ WorkTyped(Rest(r, x), tick) /\ SyncTyped(Rest(r, x), tick)
         /\ x \in RemoteIds /\ syncs[r].pulled[x] \in Remote
<1>1. WorkTyped(syncs[r], tick) /\ syncs[r].todo = Nothing
  BY ReadyTyped DEF Settles
<1>2. x \in RemoteIds /\ syncs[r].pulled[x] \in Remote
  BY <1>1 DEF WorkTyped, PulledTyped, Settles
<1>3. /\ DOMAIN Rest(r, x) = DOMAIN NewSync
      /\ Rest(r, x).pulled = Without(syncs[r].pulled, x)
      /\ Rest(r, x).maps = syncs[r].maps /\ Rest(r, x).mine = syncs[r].mine
      /\ Rest(r, x).upto = syncs[r].upto /\ Rest(r, x).todo = Nothing
  BY <1>1 DEF Rest, WorkTyped, NewSync
<1>4. PulledTyped(Without(syncs[r].pulled, x))
  BY <1>1 DEF WorkTyped, PulledTyped, Without
<1>5. WorkTyped(Rest(r, x), tick)
  BY <1>1, <1>3, <1>4 DEF WorkTyped
<1>6. SyncTyped(Rest(r, x), tick)
  BY <1>3, <1>5 DEF WorkTyped, SyncTyped, TaskTyped
<1> QED BY <1>2, <1>5, <1>6

LEMMA TaskAdded ==
  ASSUME NEW s, NEW top, WorkTyped(s, top), NEW todo, TaskTyped(todo)
  PROVE  SyncTyped([s EXCEPT !.todo = todo], top)
BY DEF WorkTyped, SyncTyped, NewSync

LEMMA TaskAndMineAdded ==
  ASSUME NEW s, NEW top, WorkTyped(s, top), NEW todo, TaskTyped(todo), NEW mine, MineTyped(mine)
  PROVE  SyncTyped([s EXCEPT !.mine = mine, !.todo = todo], top)
BY DEF WorkTyped, SyncTyped, NewSync

LEMMA WorkTypedLater ==
  ASSUME NEW s, NEW t \in Nat, WorkTyped(s, t)
  PROVE  WorkTyped(s, t + 1)
BY DEF WorkTyped

(* A run's write at the provider.                                           *)
LEMMA WriteStepTyped ==
  ASSUME CalendarTyped, NEW r \in SyncRuns, NEW s, WorkTyped(s, tick),
         NEW x \in RemoteIds, NEW c \in Maybe(Contents), tick < MaxTick,
         tick' = tick + 1,
         remoteEvents' = [remoteEvents EXCEPT ![x] = [content |-> c, etag |-> tick + 1]],
         NEW todo, TaskTyped(todo), Progress(r, [s EXCEPT !.todo = todo]),
         UNCHANGED <<localEvents, mappings, cursor, unseen, users>>
  PROVE  CalendarTyped'
<1>1. StoresTyped' /\ tick <= tick'
  BY EventWrittenTyped DEF CalendarTyped, StoresTyped, users
<1>2. tick \in Nat
  BY DEF CalendarTyped, StoresTyped
<1>3. SyncTyped([s EXCEPT !.todo = todo], tick')
  BY <1>2, WorkTypedLater, TaskAdded
<1> QED BY <1>1, <1>3, RunGoesOnTyped

LEMMA QuietStepTyped ==
  ASSUME CalendarTyped, NEW r \in SyncRuns, NEW s, SyncTyped(s, tick), Progress(r, s),
         UNCHANGED <<remoteEvents, tick, mappings, cursor, unseen, users>>,
         MineTyped(localEvents')
  PROVE  CalendarTyped'
<1>1. StoresTyped' /\ tick <= tick'
  BY StoresKept DEF CalendarTyped, StoresTyped, users, RowsTyped
<1>2. SyncTyped(s, tick')
  OBVIOUS
<1> QED BY <1>1, <1>2, RunGoesOnTyped

LEMMA PullChangesTyped ==
  ASSUME CalendarTyped, NEW r \in SyncRuns, PullChanges(r)
  PROVE  CalendarTyped'
<1>1. PICK listed \in {Since(cursor), {x \in RemoteIds : Live(remoteEvents[x].content)}} :
        /\ Progress(r, [syncs[r] EXCEPT !.upto = tick,
                          !.pulled = [x \in listed |-> remoteEvents[x]]])
        /\ unseen' = unseen \ listed
        /\ missed' = missed \cup (Since(cursor) \ listed)
  BY DEF PullChanges
<1>2. listed \subseteq RemoteIds /\ Since(cursor) \subseteq RemoteIds
  BY DEF Since
<1>3. UNCHANGED <<localEvents, remoteEvents, tick, mappings, cursor, pullOnly, edits, disturbed>>
  BY DEF PullChanges
<1> DEFINE pulled == [x \in listed |-> remoteEvents[x]]
           s == [syncs[r] EXCEPT !.upto = tick, !.pulled = pulled]
<1>4. StoresTyped' /\ tick <= tick'
  BY <1>1, <1>2, <1>3, StoresKept DEF CalendarTyped, StoresTyped, MineTyped, RowsTyped
<1>5. PulledTyped(pulled)
  BY <1>2 DEF PulledTyped, CalendarTyped, StoresTyped
<1>6. SyncTyped(s, tick')
  <2>1. SyncTyped(syncs[r], tick) /\ tick \in Nat
    BY DEF CalendarTyped, SyncsTyped, StoresTyped
  <2> HIDE DEF pulled
  <2> QED BY <1>3, <1>5, <2>1 DEF SyncTyped, NewSync
<1>7. Progress(r, s)
  BY <1>1
<1> HIDE DEF s
<1> QED BY <1>4, <1>6, <1>7, RunGoesOnTyped

LEMMA ReadsTyped ==
  ASSUME CalendarTyped, NEW r \in SyncRuns, ReadLocalEvents(r) \/ ReadMappings(r)
  PROVE  CalendarTyped'
<1>1. SyncTyped(syncs[r], tick) /\ PulledTyped(syncs[r].pulled)
  BY DEF CalendarTyped, SyncsTyped, SyncTyped, ReadLocalEvents, ReadMappings
<1>2. UNCHANGED <<localEvents, remoteEvents, tick, mappings, cursor, unseen, users>>
  BY DEF ReadLocalEvents, ReadMappings
<1>3. MineTyped(localEvents) /\ RowsTyped(mappings)
  BY DEF CalendarTyped, StoresTyped
<1>4. PICK s : Progress(r, s) /\ s \in {[syncs[r] EXCEPT !.mine = localEvents],
                                        [syncs[r] EXCEPT !.maps = mappings]}
  BY DEF ReadLocalEvents, ReadMappings
<1>5. SyncTyped(s, tick)
  BY <1>1, <1>3, <1>4 DEF SyncTyped, NewSync
<1>6. MineTyped(localEvents')
  BY <1>2, <1>3
<1> QED BY <1>2, <1>4, <1>5, <1>6, QuietStepTyped

(* A mapping that a run knows, and the event here that it names             *)
LEMMA RowKnown ==
  ASSUME NEW s, NEW top, WorkTyped(s, top), NEW m \in MappingIds, Live(s.maps[m])
  PROVE  s.maps[m] \in Mapping /\ s.mine[s.maps[m].local] \in Maybe(Contents)
BY DEF WorkTyped, RowsTyped, MineTyped, Live, Maybe, Mapping

LEMMA LiveContent ==
  ASSUME NEW c \in Maybe(Contents), Live(c)
  PROVE  c \in Contents
BY DEF Maybe, Live

LEMMA PushChangedTyped ==
  ASSUME CalendarTyped, NEW r \in SyncRuns, NEW s, WorkTyped(s, tick),
         NEW m \in MappingIds, Live(s.maps[m]), Live(s.mine[s.maps[m].local]),
         PushChanged(r, s, m)
  PROVE  CalendarTyped'
<1> DEFINE x == s.maps[m].remote
           c == s.mine[s.maps[m].local]
           todo == UpdateState(m, [remote |-> x, etag |-> tick + 1, hash |-> c])
<1>1. x \in RemoteIds /\ c \in Maybe(Contents) /\ c \in Contents
  BY RowKnown, LiveContent DEF Mapping
<1>2. tick + 1 \in 0..MaxTick /\ tick < MaxTick
  BY CalendarSyncAssumption DEF CalendarTyped, StoresTyped, PushChanged
<1>3. TaskTyped(todo)
  <2> HIDE DEF x, c
  <2> QED BY <1>1, <1>2 DEF TaskTyped, UpdateTyped, UpdateState
<1>4. /\ Progress(r, [s EXCEPT !.todo = todo])
      /\ tick' = tick + 1 /\ UNCHANGED <<localEvents, mappings, cursor, unseen, users>>
      /\ remoteEvents' = [remoteEvents EXCEPT ![x] = [content |-> c, etag |-> tick + 1]]
  BY DEF PushChanged
<1> HIDE DEF x, c, todo
<1> QED BY <1>1, <1>2, <1>3, <1>4, WriteStepTyped

LEMMA PushNewTyped ==
  ASSUME CalendarTyped, NEW r \in SyncRuns, NEW s, WorkTyped(s, tick),
         NEW l \in LocalIds, NEW todo,
         tick + 1 \in 0..MaxTick => \A y \in RemoteIds : TaskTyped(todo[y]),
         PushNew(r, s, l, todo)
  PROVE  CalendarTyped'
<1>1. PICK x \in RemoteIds :
        /\ tick < MaxTick /\ tick' = tick + 1
        /\ remoteEvents' = [remoteEvents EXCEPT ![x] = [content |-> s.mine[l], etag |-> tick + 1]]
        /\ Progress(r, [s EXCEPT !.todo = todo[x]])
        /\ UNCHANGED <<localEvents, mappings, cursor, unseen, users>>
  BY DEF PushNew
<1>2. tick + 1 \in 0..MaxTick
  BY <1>1, CalendarSyncAssumption DEF CalendarTyped, StoresTyped
<1> DEFINE task == todo[x]
           c == s.mine[l]
<1>3. TaskTyped(task) /\ c \in Maybe(Contents)
  BY <1>2 DEF WorkTyped, MineTyped
<1>4. /\ Progress(r, [s EXCEPT !.todo = task])
      /\ remoteEvents' = [remoteEvents EXCEPT ![x] = [content |-> c, etag |-> tick + 1]]
  BY <1>1
<1> HIDE DEF task, c
<1> QED BY <1>1, <1>3, <1>4, WriteStepTyped

LEMMA PullDeletionTyped ==
  ASSUME CalendarTyped, NEW r \in SyncRuns, NEW x \in RemoteIds, PullDeletion(r, x)
  PROVE  CalendarTyped'
<1> DEFINE s == Rest(r, x)
<1>1. WorkTyped(s, tick) /\ SyncTyped(s, tick)
  BY RestTyped DEF PullDeletion
<1>0. MineTyped(localEvents)
  BY DEF CalendarTyped, StoresTyped
<1>2. CASE MappedTo(s, x) = {}
  <2>2. Progress(r, s)
        /\ UNCHANGED <<localEvents, remoteEvents, tick, mappings, cursor, unseen, users>>
    BY <1>2 DEF PullDeletion
  <2>3. MineTyped(localEvents')
    BY <1>0, <2>2
  <2> HIDE DEF s
  <2> QED BY <1>1, <2>2, <2>3, QuietStepTyped
<1>3. ASSUME NEW m \in MappedTo(s, x),
             Progress(r, [s EXCEPT !.todo = RemoveState(m)]),
             UNCHANGED <<localEvents, remoteEvents, tick, mappings, cursor, unseen, users>>
      PROVE  CalendarTyped'
  <2>1. TaskTyped(RemoveState(m))
    BY DEF TaskTyped, RemoveState, MappedTo
  <2>2. SyncTyped([s EXCEPT !.todo = RemoveState(m)], tick)
    <3> HIDE DEF s
    <3> QED BY <1>1, <2>1, TaskAdded
  <2>3. MineTyped(localEvents')
    BY <1>0, <1>3
  <2> HIDE DEF s
  <2> QED BY <1>3, <2>2, <2>3, QuietStepTyped
<1>4. ASSUME NEW m \in MappedTo(s, x), Live(s.mine[s.maps[m].local]),
             PushNew(r, s, s.maps[m].local, [y \in RemoteIds |->
               UpdateState(m, [remote |-> y, etag |-> tick + 1,
                               hash |-> s.mine[s.maps[m].local]])])
      PROVE  CalendarTyped'
  <2> DEFINE l == s.maps[m].local
             c == s.mine[l]
             todo == [y \in RemoteIds |->
               UpdateState(m, [remote |-> y, etag |-> tick + 1, hash |-> c])]
  <2>1. l \in LocalIds /\ c \in Contents /\ m \in MappingIds
    <3> HIDE DEF s
    <3> QED BY <1>1, <1>4, RowKnown, LiveContent DEF Mapping, MappedTo
  <2>2. tick + 1 \in 0..MaxTick => \A y \in RemoteIds : TaskTyped(todo[y])
    <3> HIDE DEF s, l, c
    <3> QED BY <2>1 DEF TaskTyped, UpdateTyped, UpdateState
  <2> QED
    <3>1. PushNew(r, s, l, todo)
      BY <1>4
    <3> HIDE DEF s, l, c, todo
    <3> QED BY <1>1, <2>1, <2>2, <3>1, PushNewTyped
<1>5. ASSUME NEW m \in MappedTo(s, x),
             localEvents' = [localEvents EXCEPT ![s.maps[m].local] = Gone],
             Progress(r, [s EXCEPT !.mine[s.maps[m].local] = Gone, !.todo = RemoveState(m)]),
             UNCHANGED <<remoteEvents, tick, mappings, cursor, unseen, users>>
      PROVE  CalendarTyped'
  <2> DEFINE mine == [s.mine EXCEPT ![s.maps[m].local] = Gone]
  <2>1. TaskTyped(RemoveState(m))
    BY DEF TaskTyped, RemoveState, MappedTo
  <2>2. MineTyped(mine) /\ MineTyped(localEvents')
    BY <1>0, <1>1, <1>5 DEF WorkTyped, MineTyped, Maybe
  <2>3. SyncTyped([s EXCEPT !.mine = mine, !.todo = RemoveState(m)], tick)
    <3> HIDE DEF s, mine
    <3> QED BY <1>1, <2>1, <2>2, TaskAndMineAdded
  <2>4. Progress(r, [s EXCEPT !.mine = mine, !.todo = RemoveState(m)])
    BY <1>5
  <2> HIDE DEF s, mine
  <2> QED BY <1>5, <2>2, <2>3, <2>4, QuietStepTyped
<1> QED BY <1>2, <1>3, <1>4, <1>5 DEF PullDeletion

LEMMA PullNewTyped ==
  ASSUME CalendarTyped, NEW r \in SyncRuns, NEW x \in RemoteIds, PullNew(r, x)
  PROVE  CalendarTyped'
<1> DEFINE s == Rest(r, x)
           it == syncs[r].pulled[x]
<1>1. WorkTyped(s, tick) /\ it \in Remote /\ Live(it.content)
  BY RestTyped DEF PullNew
<1>2. it.etag \in 0..MaxTick /\ it.content \in Contents
  <2> HIDE DEF it
  <2> QED BY <1>1, LiveContent DEF Remote
<1> DEFINE Todo(l) == IF MappedTo(s, x) = {}
                      THEN CreateState([local |-> l, remote |-> x, etag |-> it.etag,
                                        hash |-> it.content])
                      ELSE UpdateState(CHOOSE m \in MappedTo(s, x) : TRUE,
                             [local |-> l, etag |-> it.etag, hash |-> it.content])
<1>3. PICK l \in LocalIds :
        /\ localEvents' = [localEvents EXCEPT ![l] = it.content]
        /\ Progress(r, [s EXCEPT !.mine[l] = it.content, !.todo = Todo(l)])
  BY DEF PullNew
<1> DEFINE mine == [s.mine EXCEPT ![l] = it.content]
           todo == Todo(l)
<1>4. TaskTyped(todo)
  <2>1. CASE MappedTo(s, x) = {}
    <3> HIDE DEF s, it
    <3>1. [local |-> l, remote |-> x, etag |-> it.etag, hash |-> it.content] \in Mapping
      BY <1>2 DEF Mapping
    <3> QED BY <2>1, <3>1 DEF TaskTyped, CreateState
  <2>2. CASE MappedTo(s, x) # {}
    <3>1. (CHOOSE m \in MappedTo(s, x) : TRUE) \in MappingIds
      <4> HIDE DEF s
      <4> QED BY <2>2 DEF MappedTo
    <3> HIDE DEF s, it
    <3> QED BY <1>2, <2>2, <3>1 DEF TaskTyped, UpdateTyped, UpdateState
  <2> QED BY <2>1, <2>2
<1>5. MineTyped(mine) /\ MineTyped(localEvents')
  <2>1. MineTyped(localEvents) /\ MineTyped(s.mine)
    BY <1>1 DEF WorkTyped, CalendarTyped, StoresTyped
  <2> HIDE DEF s, it
  <2> QED BY <1>2, <1>3, <2>1 DEF MineTyped, Maybe
<1>6. SyncTyped([s EXCEPT !.mine = mine, !.todo = todo], tick)
  <2> HIDE DEF s, mine, todo
  <2> QED BY <1>1, <1>4, <1>5, TaskAndMineAdded
<1>7. Progress(r, [s EXCEPT !.mine = mine, !.todo = todo])
  BY <1>3
<1>8. UNCHANGED <<remoteEvents, tick, mappings, cursor, unseen, users>>
  BY DEF PullNew
<1> HIDE DEF s, mine, todo
<1> QED BY <1>5, <1>6, <1>7, <1>8, QuietStepTyped

LEMMA PullChangeTyped ==
  ASSUME CalendarTyped, NEW r \in SyncRuns, NEW x \in RemoteIds, NEW resolution,
         PullChange(r, x, resolution)
  PROVE  CalendarTyped'
<1> DEFINE s == Rest(r, x)
           it == syncs[r].pulled[x]
<1>1. WorkTyped(s, tick) /\ it \in Remote /\ Live(it.content)
  BY RestTyped DEF PullChange
<1>2. it.etag \in 0..MaxTick /\ it.content \in Contents
  <2> HIDE DEF it
  <2> QED BY <1>1, LiveContent DEF Remote
<1>3. PICK m \in MappedTo(s, x) :
        LET l == s.maps[m].local IN
        /\ Live(s.mine[l])
        /\ \/ /\ Progress(r, [s EXCEPT !.todo = UpdateState(m, [etag |-> it.etag])])
              /\ UNCHANGED <<localEvents, remoteEvents, tick, mappings, cursor, unseen, users>>
           \/ PushChanged(r, s, m)
           \/ /\ localEvents' = [localEvents EXCEPT ![l] = it.content]
              /\ Progress(r, [s EXCEPT !.mine[l] = it.content,
                     !.todo = UpdateState(m, [etag |-> it.etag, hash |-> it.content])])
              /\ UNCHANGED <<remoteEvents, tick, mappings, cursor, unseen, users>>
  BY DEF PullChange
<1> DEFINE mine == [s.mine EXCEPT ![s.maps[m].local] = it.content]
           kept == UpdateState(m, [etag |-> it.etag])
           taken == UpdateState(m, [etag |-> it.etag, hash |-> it.content])
<1>4. m \in MappingIds /\ Live(s.maps[m]) /\ TaskTyped(kept) /\ TaskTyped(taken)
  <2> HIDE DEF s, it
  <2> QED BY <1>2 DEF TaskTyped, UpdateTyped, UpdateState, MappedTo
<1>5. MineTyped(localEvents) /\ MineTyped(mine)
  <2>1. MineTyped(localEvents) /\ MineTyped(s.mine)
    BY <1>1 DEF WorkTyped, CalendarTyped, StoresTyped
  <2> HIDE DEF s, it
  <2> QED BY <1>2, <2>1 DEF MineTyped, Maybe
<1>6. /\ SyncTyped([s EXCEPT !.todo = kept], tick)
      /\ SyncTyped([s EXCEPT !.mine = mine, !.todo = taken], tick)
  <2> HIDE DEF s, mine, kept, taken
  <2> QED BY <1>1, <1>4, <1>5, TaskAdded, TaskAndMineAdded
<1>7. CASE PushChanged(r, s, m)
  <2>1. Live(s.mine[s.maps[m].local])
    BY <1>3
  <2> HIDE DEF s
  <2> QED BY <1>1, <1>4, <1>7, <2>1, PushChangedTyped
<1>8. CASE Progress(r, [s EXCEPT !.todo = kept])
           /\ UNCHANGED <<localEvents, remoteEvents, tick, mappings, cursor, unseen, users>>
  <2>1. MineTyped(localEvents')
    BY <1>5, <1>8
  <2> HIDE DEF s, kept
  <2> QED BY <1>6, <1>8, <2>1, QuietStepTyped
<1>9. CASE /\ localEvents' = [localEvents EXCEPT ![s.maps[m].local] = it.content]
           /\ Progress(r, [s EXCEPT !.mine = mine, !.todo = taken])
           /\ UNCHANGED <<remoteEvents, tick, mappings, cursor, unseen, users>>
  <2>1. MineTyped(localEvents')
    BY <1>2, <1>5, <1>9 DEF MineTyped, Maybe
  <2> HIDE DEF s, mine, taken
  <2> QED BY <1>6, <1>9, <2>1, QuietStepTyped
<1> QED BY <1>3, <1>7, <1>8, <1>9

LEMMA PushEventTyped ==
  ASSUME CalendarTyped, NEW r \in SyncRuns, NEW l \in LocalIds, PushEvent(r, l)
  PROVE  CalendarTyped'
<1> DEFINE s == syncs[r]
           c == s.mine[l]
           todo == [y \in RemoteIds |->
             CreateState([local |-> l, remote |-> y, etag |-> tick + 1, hash |-> c])]
<1>1. WorkTyped(s, tick) /\ Live(c)
  BY ReadyTyped DEF PushEvent, AllPulled, ToPush
<1>2. c \in Contents
  BY <1>1, LiveContent DEF WorkTyped, MineTyped
<1>3. tick + 1 \in 0..MaxTick => \A y \in RemoteIds : TaskTyped(todo[y])
  <2> HIDE DEF c
  <2> SUFFICES ASSUME tick + 1 \in 0..MaxTick, NEW y \in RemoteIds
               PROVE  TaskTyped(todo[y])
    OBVIOUS
  <2>1. [local |-> l, remote |-> y, etag |-> tick + 1, hash |-> c] \in Mapping
    BY <1>2 DEF Mapping
  <2> QED BY <2>1 DEF TaskTyped, CreateState
<1>4. CASE PushNew(r, s, l, todo)
  <2> HIDE DEF s, c, todo
  <2> QED BY <1>1, <1>3, <1>4, PushNewTyped
<1>5. ASSUME NEW m \in MappedBy(s, l), PushChanged(r, s, m)
      PROVE  CalendarTyped'
  <2>1. m \in MappingIds /\ Live(s.maps[m]) /\ Live(s.mine[s.maps[m].local])
    BY <1>1 DEF MappedBy
  <2> HIDE DEF s
  <2> QED BY <1>1, <1>5, <2>1, PushChangedTyped
<1> QED BY <1>4, <1>5 DEF PushEvent

LEMMA RemoveThereTyped ==
  ASSUME CalendarTyped, NEW r \in SyncRuns, NEW m \in MappingIds, RemoveThere(r, m)
  PROVE  CalendarTyped'
<1> DEFINE s == syncs[r]
           x == s.maps[m].remote
           todo == RemoveState(m)
<1>1. WorkTyped(s, tick) /\ Live(s.maps[m])
  BY ReadyTyped DEF RemoveThere, AllPulled, ToRemove
<1>2. x \in RemoteIds
  BY <1>1, RowKnown DEF Mapping
<1>3. TaskTyped(todo) /\ Gone \in Maybe(Contents)
  BY DEF TaskTyped, RemoveState, Maybe
<1>4. /\ Progress(r, [s EXCEPT !.todo = todo]) /\ tick < MaxTick
      /\ tick' = tick + 1 /\ UNCHANGED <<localEvents, mappings, cursor, unseen, users>>
      /\ remoteEvents' = [remoteEvents EXCEPT ![x] = [content |-> Gone, etag |-> tick + 1]]
  BY DEF RemoveThere
<1> HIDE DEF s, x, todo
<1> QED BY <1>1, <1>2, <1>3, <1>4, WriteStepTyped

LEMMA MergedTyped ==
  ASSUME NEW new, UpdateTyped(new), NEW old \in Mapping
  PROVE  Merged(new, old) \in Mapping
<1> DEFINE row == Merged(new, old)
<1>1. DOMAIN old = {"local", "remote", "etag", "hash"}
  BY DEF Mapping
<1>2. /\ row = [k \in DOMAIN old |-> row[k]]
      /\ row.local \in LocalIds /\ row.remote \in RemoteIds
      /\ row.etag \in 0..MaxTick /\ row.hash \in Contents
  BY <1>1 DEF Merged, UpdateTyped, Mapping
<1> HIDE DEF row
<1>3. row \in Mapping
  BY <1>1, <1>2 DEF Mapping
<1> QED BY <1>3 DEF row

LEMMA SaveMappingTyped ==
  ASSUME CalendarTyped, NEW r \in SyncRuns, SaveMapping(r)
  PROVE  CalendarTyped'
<1> DEFINE s == syncs[r]
           t == s.todo
           Stored(i) == CASE t.op = "create" -> t.row
                          [] t.op = "update" -> Merged(t.new, mappings[i])
                          [] t.op = "remove" -> Gone
<1>1. SyncTyped(s, tick) /\ RowsTyped(mappings)
  BY DEF CalendarTyped, SyncsTyped, StoresTyped
<1>2. PICK m \in MappingIds :
        /\ IF t.op = "create" THEN mappings[m] = Unused
           ELSE m = t.mapping /\ Live(mappings[m])
        /\ mappings' = [mappings EXCEPT ![m] = Stored(m)]
        /\ Progress(r, [s EXCEPT !.maps[m] = Stored(m), !.todo = Nothing])
  BY DEF SaveMapping
<1> DEFINE saved == Stored(m)
<1>3. TaskTyped(t) /\ t # Nothing
  BY <1>1 DEF SyncTyped, SaveMapping
<1>4. saved \in Maybe(Mapping)
  <2>1. CASE t.op = "create"
    BY <1>3, <2>1 DEF TaskTyped, Maybe
  <2>2. CASE t.op = "update"
    <3>1. saved = Merged(t.new, mappings[m]) /\ Live(mappings[m])
      BY <1>2, <2>2
    <3>2. UpdateTyped(t.new) /\ mappings[m] \in Mapping
      BY <1>1, <1>3, <2>2, <3>1 DEF TaskTyped, RowsTyped, Maybe, Live
    <3> QED BY <3>1, <3>2, MergedTyped DEF Maybe
  <2>3. CASE t.op = "remove"
    BY <2>3 DEF Maybe
  <2> QED BY <1>3, <2>1, <2>2, <2>3 DEF TaskTyped
<1> DEFINE maps == [s.maps EXCEPT ![m] = saved]
           new == [s EXCEPT !.maps = maps, !.todo = Nothing]
<1>5. RowsTyped(mappings') /\ RowsTyped(maps)
  <2>1. mappings' = [mappings EXCEPT ![m] = saved] /\ RowsTyped(s.maps)
    BY <1>1, <1>2, <1>3 DEF SyncTyped
  <2> HIDE DEF saved, s
  <2> QED BY <1>1, <1>4, <2>1 DEF RowsTyped
<1>6. Progress(r, new)
  BY <1>2
<1>7. UNCHANGED <<localEvents, remoteEvents, tick, cursor, unseen, users>>
  BY DEF SaveMapping
<1>8. StoresTyped' /\ tick <= tick'
  BY <1>5, <1>7, StoresKept DEF CalendarTyped, StoresTyped, users, MineTyped
<1>9. SyncTyped(new, tick')
  <2>1. PulledTyped(s.pulled)
    BY <1>1, <1>3 DEF SyncTyped
  <2> HIDE DEF maps, t
  <2> HIDE DEF s
  <2> QED BY <1>1, <1>5, <1>7, <2>1 DEF SyncTyped, NewSync, TaskTyped
<1> HIDE DEF new
<1> QED BY <1>6, <1>8, <1>9, RunGoesOnTyped

LEMMA SaveCursorTyped ==
  ASSUME CalendarTyped, NEW r \in SyncRuns, SaveCursor(r)
  PROVE  CalendarTyped'
<1> DEFINE s == [syncs[r] EXCEPT !.done = TRUE]
<1>1. SyncTyped(syncs[r], tick)
  BY DEF CalendarTyped, SyncsTyped
<1>2. /\ cursor' = syncs[r].upto /\ Progress(r, s)
      /\ UNCHANGED <<localEvents, remoteEvents, tick, mappings, unseen, users>>
  BY DEF SaveCursor
<1>3. cursor' \in 0..tick
  BY <1>1, <1>2 DEF SyncTyped
<1>4. StoresTyped' /\ tick <= tick'
  BY <1>2, <1>3 DEF CalendarTyped, StoresTyped, users, MineTyped, RowsTyped
<1>5. SyncTyped(s, tick')
  BY <1>1, <1>2 DEF SyncTyped, NewSync
<1> HIDE DEF s
<1> QED BY <1>2, <1>4, <1>5, RunGoesOnTyped

LEMMA SyncStepTyped ==
  ASSUME CalendarTyped, NEW r \in SyncRuns, SyncStep(r)
  PROVE  CalendarTyped'
<1>1. CASE PullChanges(r)
  BY <1>1, PullChangesTyped
<1>2. CASE ReadLocalEvents(r) \/ ReadMappings(r)
  BY <1>2, ReadsTyped
<1>3. ASSUME NEW x \in RemoteIds, PullDeletion(r, x)
      PROVE  CalendarTyped'
  BY <1>3, PullDeletionTyped
<1>4. ASSUME NEW x \in RemoteIds, PullNew(r, x)
      PROVE  CalendarTyped'
  BY <1>4, PullNewTyped
<1>5. ASSUME NEW x \in RemoteIds, NEW resolution, PullChange(r, x, resolution)
      PROVE  CalendarTyped'
  BY <1>5, PullChangeTyped
<1>6. ASSUME NEW l \in LocalIds, PushEvent(r, l)
      PROVE  CalendarTyped'
  BY <1>6, PushEventTyped
<1>7. ASSUME NEW m \in MappingIds, RemoveThere(r, m)
      PROVE  CalendarTyped'
  BY <1>7, RemoveThereTyped
<1>8. CASE SaveMapping(r)
  BY <1>8, SaveMappingTyped
<1>9. CASE SaveCursor(r)
  BY <1>9, SaveCursorTyped
<1> QED BY <1>1, <1>2, <1>3, <1>4, <1>5, <1>6, <1>7, <1>8, <1>9 DEF SyncStep

LEMMA ForgetTyped ==
  ASSUME CalendarTyped, NEW r \in SyncRuns, Forget(r)
  PROVE  CalendarTyped'
<1>1. /\ Progress(r, NewSync) /\ disturbed' \subseteq SyncRuns
      /\ UNCHANGED <<localEvents, remoteEvents, tick, mappings, cursor, pullOnly, edits,
                     unseen, missed>>
  BY DEF Forget, Progress, CalendarTyped, StoresTyped
<1>2. StoresTyped' /\ tick <= tick'
  BY <1>1, StoresKept DEF CalendarTyped, StoresTyped, MineTyped, RowsTyped
<1>3. SyncTyped(NewSync, tick')
  BY <1>2, NewSyncTyped DEF StoresTyped
<1> QED BY <1>1, <1>2, <1>3, RunGoesOnTyped

LEMMA EditTyped ==
  ASSUME CalendarTyped, EditStep
  PROVE  CalendarTyped'
<1>0. edits \in 0..MaxEdits /\ MaxEdits \in Nat /\ disturbed \subseteq SyncRuns
      /\ \A r \in SyncRuns : SyncTyped(syncs[r], tick)
  BY CalendarSyncAssumption DEF CalendarTyped, StoresTyped, SyncsTyped
<1>1. ASSUME NEW l \in LocalIds, NEW c \in Contents \cup {Gone}, EditHere(l, c)
      PROVE  CalendarTyped'
  <2>1. MineTyped(localEvents')
    BY <1>1 DEF EditHere, CalendarTyped, StoresTyped, MineTyped, Maybe
  <2>2. edits' \in 0..MaxEdits /\ disturbed' \subseteq SyncRuns
    BY <1>0, <1>1 DEF EditHere, Disturb
  <2>3. StoresTyped'
    BY <1>1, <2>1, <2>2 DEF EditHere, CalendarTyped, StoresTyped, RowsTyped
  <2> QED BY <1>1, <2>3 DEF EditHere, CalendarTyped, SyncsTyped
<1>2. ASSUME NEW x \in RemoteIds, NEW c \in Contents \cup {Gone}, EditThere(x, c)
      PROVE  CalendarTyped'
  <2>1. edits' \in 0..MaxEdits /\ disturbed' \subseteq SyncRuns
    BY <1>0, <1>2 DEF EditThere, Disturb
  <2>2. unseen' \subseteq RemoteIds /\ missed' \subseteq RemoteIds /\ c \in Maybe(Contents)
    BY <1>2 DEF EditThere, CalendarTyped, StoresTyped, Maybe
  <2>3. StoresTyped' /\ tick <= tick'
    BY <1>2, <2>1, <2>2, EventWrittenTyped DEF EditThere, CalendarTyped
  <2>4. \A r \in SyncRuns : SyncTyped(syncs[r], tick')
    BY <1>0, <2>3 DEF SyncTyped, StoresTyped, CalendarTyped
  <2> QED BY <1>2, <2>3, <2>4 DEF EditThere, CalendarTyped, SyncsTyped
<1> QED BY <1>1, <1>2 DEF EditStep

LEMMA CalendarStepTyped ==
  ASSUME CalendarTyped, [SyncNext]_syncVars
  PROVE  CalendarTyped'
<1>1. CASE UNCHANGED calendarVars
  BY <1>1 DEF calendarVars, CalendarTyped, StoresTyped, SyncsTyped, MineTyped, RowsTyped
<1>2. ASSUME NEW r \in SyncRuns, Forget(r)
      PROVE  CalendarTyped'
  BY <1>2, ForgetTyped
<1>3. ASSUME NEW r \in SyncRuns, SyncStep(r)
      PROVE  CalendarTyped'
  BY <1>3, SyncStepTyped
<1>4. CASE EditStep
  BY <1>4, EditTyped
<1> QED BY <1>1, <1>2, <1>3, <1>4 DEF SyncNext, syncVars

LEMMA CalendarAlwaysTyped == SyncSpec => []CalendarTyped
<1>1. CalendarTyped /\ [SyncNext]_syncVars => CalendarTyped'
  BY CalendarStepTyped
<1> QED BY CalendarInitTyped, <1>1, PTL DEF SyncSpec

(* The calendar's events, the provider's, the mappings and what runs have   *)
(* read of them have their types.  Behind it stands what is not a matter of *)
(* types alone: no run stores a mapping, or pushes an event, whose content  *)
(* is a mark for an event that is not there, and no cursor lies past the    *)
(* provider's last write.                                                   *)
THEOREM SyncTypeCorrect == SyncSpec => []SyncTypeOK
<1>1. CalendarTyped /\ LeaseTypeOK => SyncTypeOK
  BY DEF CalendarTyped, StoresTyped, SyncsTyped, SyncTyped, SyncTypeOK, PulledTyped,
         MineTyped, RowsTyped
<1> QED BY <1>1, CalendarAlwaysTyped, SyncLeaseTypeCorrect, PTL

-----------------------------------------------------------------------------
(* The cursor and the rows *)

(* The row says what the provider's event x is now.                         *)
Tells(row, x) ==
  /\ Live(row) /\ row.remote = x
  /\ row.etag = remoteEvents[x].etag /\ row.hash = remoteEvents[x].content

(* The rows there will be once the task is saved: those it keeps, and the   *)
(* one it writes.                                                           *)
Keeps(todo, m) == todo.op \in {"update", "remove"} => m # todo.mapping

Writes(todo, row) ==
  \/ todo.op = "create" /\ row = todo.row
  \/ todo.op = "update" /\ row = Merged(todo.new, mappings[todo.mapping])

KeptFor(todo, x)    == \E m \in MappingIds : Keeps(todo, m) /\ Tells(mappings[m], x)
WrittenFor(todo, x) == \E row \in Mapping : Writes(todo, row) /\ Tells(row, x)

(* A user changed the event since the run r, which holds s, asked for       *)
(* changes.                                                                 *)
Newer(r, s, x) == remoteEvents[x].etag > s.upto /\ r \in disturbed

Unsettled(s, x) == x \in DOMAIN s.pulled

(* What the run was told and has not settled yet is so still.               *)
PendingHolds(r, s) ==
  \A x \in DOMAIN s.pulled :
    /\ s.pulled[x].content # Unused
    /\ s.pulled[x] = remoteEvents[x] \/ Newer(r, s, x)

(* Every event at the provider that the cursor has passed, or that the run  *)
(* has settled, will be mapped as it is.                                    *)
LiveCovered(r, s) ==
  \A x \in RemoteIds :
    Live(remoteEvents[x].content) /\ (Unsettled(s, x) => remoteEvents[x].etag <= cursor) =>
      KeptFor(s.todo, x) \/ WrittenFor(s.todo, x) \/ Newer(r, s, x)

RowHolds(r, s, row) == Tells(row, row.remote) \/ Newer(r, s, row.remote)

KeptRowsHold(r, s, todo) ==
  \A m \in MappingIds :
    Live(mappings[m]) /\ Keeps(todo, m) =>
      RowHolds(r, s, mappings[m]) \/ Unsettled(s, mappings[m].remote)

WrittenRowHolds(r, s, todo) == \A row \in Mapping : Writes(todo, row) => RowHolds(r, s, row)

(* The run is the only one that works: what it has read is so still, but    *)
(* for what users have edited since.                                        *)
AtWork(r, s) ==
  /\ cursor <= s.upto
  /\ s.maps # NotRead \/ s.todo # Nothing => s.maps = mappings
  /\ (s.mine # NotRead \/ s.todo # Nothing) /\ r \notin disturbed => s.mine = localEvents
  /\ PendingHolds(r, s) /\ LiveCovered(r, s)
  /\ missed = {} => KeptRowsHold(r, s, s.todo) /\ WrittenRowHolds(r, s, s.todo)

Begun(s) == s.pulled # NotRead \/ s.mine # NotRead \/ s.maps # NotRead \/ s.todo # Nothing

Converged ==
  /\ \A l \in LocalIds : Live(localEvents[l]) => \E x \in RemoteIds : Paired(l, x)
  /\ \A x \in RemoteIds : Live(remoteEvents[x].content) => \E l \in LocalIds : Paired(l, x)

Quiet(r) == r \notin disturbed /\ missed = {} /\ ~ pullOnly

CursorCovered ==
  \A x \in RemoteIds :
    Live(remoteEvents[x].content) /\ remoteEvents[x].etag <= cursor =>
      \E m \in MappingIds : Tells(mappings[m], x)

(* A row that is not true of its event is about one the cursor has not      *)
(* passed, so the next run hears of it.                                     *)
RowsCovered ==
  \A m \in MappingIds :
    Live(mappings[m]) =>
      Tells(mappings[m], mappings[m].remote) \/ remoteEvents[mappings[m].remote].etag > cursor

Covered == CursorCovered /\ (missed = {} => RowsCovered)

UnusedIsUnwritten == \A x \in RemoteIds : remoteEvents[x].content = Unused => remoteEvents[x].etag = 0

PlainInv ==
  /\ PairedUp(mappings)
  /\ UnusedIsUnwritten
  /\ \A r \in SyncRuns : syncRuns[r].phase # "working" => syncs[r] = NewSync
  /\ \A r \in SyncRuns : syncs[r].done => syncs[r].todo = Nothing

WorkInv ==
  /\ Covered
  /\ \A r \in SyncRuns : Begun(syncs[r]) => AtWork(r, syncs[r])
  /\ \A r \in SyncRuns : syncs[r].done /\ Quiet(r) => Converged

CoverInv == PlainInv /\ (lapsed = {} => WorkInv)

-----------------------------------------------------------------------------

Alone(r) == \A q \in SyncRuns : q # r => syncs[q] = NewSync

LEMMA WorksAlone ==
  ASSUME PlainInv, WorksUnderLease, lapsed = {}, NEW r \in SyncRuns, syncRuns[r].phase = "working"
  PROVE  Alone(r)
BY DEF Alone, PlainInv, WorksUnderLease, Working

LEMMA NotBegun ==
  ~ Begun(NewSync) /\ NewSync.done = FALSE /\ NewSync.todo = Nothing
BY DEF Begun, NewSync

LEMMA CoverGoesOn ==
  ASSUME CalendarTyped, CoverInv, WorksUnderLease,
         NEW r \in SyncRuns, syncRuns[r].phase = "working", UNCHANGED leaseVars,
         NEW s, Progress(r, s), PairedUp(mappings'), UnusedIsUnwritten',
         s.done => s.todo = Nothing,
         lapsed = {} => AtWork(r, s)' /\ Covered' /\ (s.done /\ Quiet(r)' => Converged')
  PROVE  CoverInv'
<1>1. /\ DOMAIN syncs' = SyncRuns /\ syncs'[r] = s
      /\ \A q \in SyncRuns : q # r => syncs'[q] = syncs[q]
  BY DEF Progress, CalendarTyped, SyncsTyped
<1>2. syncRuns' = syncRuns /\ lapsed' = lapsed
  BY DEF leaseVars
<1>3. PlainInv'
  <2>1. \A q \in SyncRuns : syncRuns'[q].phase # "working" => syncs'[q] = NewSync
    BY <1>1, <1>2 DEF CoverInv, PlainInv
  <2>2. \A q \in SyncRuns : syncs'[q].done => syncs'[q].todo = Nothing
    BY <1>1 DEF CoverInv, PlainInv
  <2> QED BY <2>1, <2>2 DEF PlainInv
<1>4. ASSUME lapsed = {}
      PROVE  WorkInv'
  <2>1. \A q \in SyncRuns : q # r => syncs'[q] = NewSync
    BY <1>1, <1>4, WorksAlone DEF Alone, CoverInv
  <2>2. \A q \in SyncRuns : Begun(syncs'[q]) => q = r
    BY <2>1, NotBegun
  <2>3. \A q \in SyncRuns : syncs'[q].done => q = r
    BY <2>1, NotBegun
  <2>4. \A q \in SyncRuns : Begun(syncs[q])' => AtWork(q, syncs[q])'
    <3> SUFFICES ASSUME NEW q \in SyncRuns, Begun(syncs[q])'
                 PROVE  AtWork(q, syncs[q])'
      OBVIOUS
    <3>1. q = r
      BY <2>2
    <3>2. AtWork(r, s)'
      BY <1>4
    <3>3. syncs'[q] = s
      BY <1>1, <3>1
    <3> QED BY <3>1, <3>2, <3>3 DEF AtWork, PendingHolds, LiveCovered, KeptRowsHold, WrittenRowHolds,
             RowHolds, Newer, Unsettled
  <2>5. \A q \in SyncRuns : syncs'[q].done /\ Quiet(q)' => Converged'
    BY <1>1, <1>4, <2>3
  <2> QED BY <1>4, <2>4, <2>5 DEF WorkInv
<1> QED BY <1>2, <1>3, <1>4 DEF CoverInv

-----------------------------------------------------------------------------
(* What a task does to the rows: it rewrites only those of event x, and no  *)
(* row of x is kept.                                                        *)
Touches(todo, x) ==
  \A m \in MappingIds : ~ Keeps(todo, m) => Live(mappings[m]) /\ mappings[m].remote = x

NoneKept(todo, x) ==
  \A m \in MappingIds : Live(mappings[m]) /\ Keeps(todo, m) => mappings[m].remote # x

(* All is well with the events other than x.                                *)
OthersHold(r, s, todo, x) ==
  /\ PendingHolds(r, s)
  /\ \A z \in RemoteIds :
       z # x /\ Live(remoteEvents[z].content)
         /\ (Unsettled(s, z) => remoteEvents[z].etag <= cursor) =>
       KeptFor(todo, z) \/ Newer(r, s, z)
  /\ missed = {} => NoneKept(todo, x) /\ KeptRowsHold(r, s, todo)

LEMMA NothingTouched ==
  /\ \A m : Keeps(Nothing, m)
  /\ \A row : ~ Writes(Nothing, row)
BY DEF Keeps, Writes, Nothing

LEMMA OthersLeftAlone ==
  ASSUME NEW r, NEW s, NEW t, AtWork(r, s), s.todo = Nothing, NEW x,
         t.upto = s.upto, t.pulled \in {s.pulled, Without(s.pulled, x)},
         NEW todo, Touches(todo, x), missed = {} => NoneKept(todo, x)
  PROVE  OthersHold(r, t, todo, x)
<1>1. \A z : Newer(r, t, z) <=> Newer(r, s, z)
  BY DEF Newer
<1>2. \A z : z # x => (Unsettled(t, z) <=> Unsettled(s, z))
  BY DEF Unsettled, Without
<1>3. PendingHolds(r, t)
  BY <1>1 DEF AtWork, PendingHolds, Without
<1>4. ASSUME NEW z \in RemoteIds, z # x, Live(remoteEvents[z].content),
             Unsettled(t, z) => remoteEvents[z].etag <= cursor
      PROVE  KeptFor(todo, z) \/ Newer(r, t, z)
  <2>1. KeptFor(Nothing, z) \/ WrittenFor(Nothing, z) \/ Newer(r, s, z)
    BY <1>2, <1>4 DEF AtWork, LiveCovered
  <2>2. ~ WrittenFor(Nothing, z)
    BY NothingTouched DEF WrittenFor
  <2>3. ASSUME NEW m \in MappingIds, Tells(mappings[m], z)
        PROVE  Keeps(todo, m)
    BY <1>4, <2>3 DEF Tells, Touches
  <2> QED BY <1>1, <2>1, <2>2, <2>3 DEF KeptFor
<1>5. missed = {} => KeptRowsHold(r, t, todo)
  <2> SUFFICES ASSUME missed = {}, NEW m \in MappingIds, Live(mappings[m]), Keeps(todo, m)
               PROVE  RowHolds(r, t, mappings[m]) \/ Unsettled(t, mappings[m].remote)
    BY DEF KeptRowsHold
  <2>1. RowHolds(r, s, mappings[m]) \/ Unsettled(s, mappings[m].remote)
    BY NothingTouched DEF AtWork, KeptRowsHold
  <2>2. mappings[m].remote # x
    BY DEF NoneKept
  <2> QED BY <1>1, <1>2, <2>1, <2>2 DEF RowHolds
<1> QED BY <1>3, <1>4, <1>5 DEF OthersHold

(* A run settles event x with a task, and writes nothing at the provider.   *)
LEMMA SettledQuietly ==
  ASSUME NEW r, NEW s, NEW x, OthersHold(r, s, s.todo, x),
         cursor <= s.upto, s.maps = mappings,
         r \notin disturbed => s.mine = localEvents',
         Live(remoteEvents[x].content) => WrittenFor(s.todo, x) \/ Newer(r, s, x),
         missed = {} => WrittenRowHolds(r, s, s.todo),
         UNCHANGED <<remoteEvents, tick, mappings, cursor, missed, disturbed>>
  PROVE  AtWork(r, s)'
<1>1. AtWork(r, s)' <=>
        /\ cursor <= s.upto
        /\ s.maps # NotRead \/ s.todo # Nothing => s.maps = mappings
        /\ (s.mine # NotRead \/ s.todo # Nothing) /\ r \notin disturbed => s.mine = localEvents'
        /\ PendingHolds(r, s) /\ LiveCovered(r, s)
        /\ missed = {} => KeptRowsHold(r, s, s.todo) /\ WrittenRowHolds(r, s, s.todo)
  BY DEF AtWork, PendingHolds, LiveCovered, KeptRowsHold, WrittenRowHolds, RowHolds, Newer,
         Unsettled, KeptFor, WrittenFor, Tells, Writes, Keeps
<1>2. LiveCovered(r, s)
  BY DEF LiveCovered, OthersHold
<1> QED BY <1>1, <1>2 DEF OthersHold

(* A run writes event x at the provider: the task tells of it.              *)
LEMMA SettledByWriting ==
  ASSUME StoresTyped, NEW r, NEW s, NEW x \in RemoteIds, OthersHold(r, s, s.todo, x),
         DOMAIN s.pulled \subseteq RemoteIds, ~ Unsettled(s, x), cursor <= s.upto, s.upto \in 0..tick, s.maps = mappings,
         r \notin disturbed => s.mine = localEvents,
         NEW c, tick' = tick + 1,
         remoteEvents' = [remoteEvents EXCEPT ![x] = [content |-> c, etag |-> tick + 1]],
         Live(c) => \E row \in Mapping : Writes(s.todo, row),
         \A row \in Mapping : Writes(s.todo, row) =>
           row.remote = x /\ row.etag = tick + 1 /\ row.hash = c,
         UNCHANGED <<localEvents, mappings, cursor, missed, disturbed>>
  PROVE  AtWork(r, s)'
<1>1. /\ remoteEvents'[x].content = c /\ remoteEvents'[x].etag = tick + 1
      /\ \A z \in RemoteIds : z # x => remoteEvents'[z] = remoteEvents[z]
  BY DEF StoresTyped
<1>2. \A row \in Mapping : Live(row)
  BY MarksAssumption DEF Live
<1>3. \A z \in RemoteIds : \A row : z # x => (Tells(row, z)' <=> Tells(row, z))
  BY <1>1 DEF Tells
<1>4. \A z \in RemoteIds : z # x => (Newer(r, s, z)' <=> Newer(r, s, z))
  BY <1>1 DEF Newer
<1>5. \A row : (Writes(s.todo, row)' <=> Writes(s.todo, row))
  BY DEF Writes
<1>6. \A row \in Mapping : Writes(s.todo, row) => Tells(row, x)'
  BY <1>1, <1>2 DEF Tells
<1>7. \A z \in RemoteIds : z # x => (KeptFor(s.todo, z)' <=> KeptFor(s.todo, z))
  BY <1>3 DEF KeptFor, Keeps
<1>8. PendingHolds(r, s)'
  <2> SUFFICES ASSUME NEW z \in DOMAIN s.pulled
               PROVE  /\ s.pulled[z].content # Unused
                      /\ s.pulled[z] = remoteEvents'[z] \/ Newer(r, s, z)'
    BY DEF PendingHolds, Newer
  <2>1. z \in RemoteIds /\ z # x
    BY DEF Unsettled
  <2>2. s.pulled[z].content # Unused /\ (s.pulled[z] = remoteEvents[z] \/ Newer(r, s, z))
    BY DEF OthersHold, PendingHolds
  <2> QED BY <1>1, <1>4, <2>1, <2>2
<1>9. LiveCovered(r, s)'
  <2> SUFFICES ASSUME NEW z \in RemoteIds, Live(remoteEvents'[z].content),
                      Unsettled(s, z) => remoteEvents'[z].etag <= cursor
               PROVE  KeptFor(s.todo, z)' \/ WrittenFor(s.todo, z)' \/ Newer(r, s, z)'
    BY DEF LiveCovered, Live, Unsettled
  <2>1. CASE z = x
    <3>1. PICK row \in Mapping : Writes(s.todo, row)
      BY <1>1, <2>1
    <3>2. Writes(s.todo, row)' /\ Tells(row, x)'
      BY <1>5, <1>6, <3>1
    <3> QED BY <2>1, <3>2 DEF WrittenFor
  <2>2. CASE z # x
    BY <1>1, <1>4, <1>7, <2>2 DEF OthersHold
  <2> QED BY <2>1, <2>2
<1>10. ASSUME missed = {}
       PROVE  WrittenRowHolds(r, s, s.todo)' /\ KeptRowsHold(r, s, s.todo)'
  <2>1. WrittenRowHolds(r, s, s.todo)'
    BY <1>5, <1>6 DEF WrittenRowHolds, RowHolds
  <2>2. ASSUME NEW m \in MappingIds, Live(mappings[m]), Keeps(s.todo, m)
        PROVE  RowHolds(r, s, mappings[m])' \/ Unsettled(s, mappings[m].remote)
    <3>1. /\ mappings[m].remote # x
          /\ RowHolds(r, s, mappings[m]) \/ Unsettled(s, mappings[m].remote)
      BY <1>10, <2>2 DEF OthersHold, NoneKept, KeptRowsHold
    <3>2. mappings[m].remote \in RemoteIds
      BY <2>2 DEF StoresTyped, RowsTyped, Maybe, Live, Mapping
    <3>3. mappings' = mappings
      OBVIOUS
    <3> QED BY <1>3, <1>4, <3>1, <3>2, <3>3 DEF RowHolds
  <2> QED BY <2>1, <2>2 DEF KeptRowsHold, Unsettled, Keeps, Live
<1> QED BY <1>8, <1>9, <1>10 DEF AtWork

(* The table, seen from the cursor, when a run writes event x               *)
LEMMA CoveredWhenWritten ==
  ASSUME StoresTyped, Covered, NEW x \in RemoteIds, NEW c, tick' = tick + 1,
         remoteEvents' = [remoteEvents EXCEPT ![x] = [content |-> c, etag |-> tick + 1]],
         UNCHANGED <<mappings, cursor, missed>>
  PROVE  Covered'
<1>1. /\ remoteEvents'[x].etag = tick + 1 /\ tick + 1 > cursor
      /\ \A z \in RemoteIds : z # x => remoteEvents'[z] = remoteEvents[z]
  BY DEF StoresTyped
<1>2. \A z \in RemoteIds : \A row : z # x => (Tells(row, z)' <=> Tells(row, z))
  BY <1>1 DEF Tells
<1>3. CursorCovered'
  <2> SUFFICES ASSUME NEW z \in RemoteIds,
                      Live(remoteEvents'[z].content), remoteEvents'[z].etag <= cursor
               PROVE  \E m \in MappingIds : Tells(mappings[m], z)'
    BY DEF CursorCovered, Live
  <2>1. z # x
    BY <1>1 DEF StoresTyped
  <2>2. PICK m \in MappingIds : Tells(mappings[m], z)
    BY <1>1, <2>1 DEF Covered, CursorCovered
  <2> QED BY <1>2, <2>1, <2>2 DEF Tells
<1>4. ASSUME missed = {}
      PROVE  RowsCovered'
  <2> SUFFICES ASSUME NEW m \in MappingIds, Live(mappings[m])
               PROVE  \/ Tells(mappings[m], mappings[m].remote)'
                      \/ remoteEvents'[mappings[m].remote].etag > cursor
    BY DEF RowsCovered, Live
  <2>1. mappings[m].remote \in RemoteIds
    BY DEF StoresTyped, RowsTyped, Maybe, Live, Mapping
  <2>2. Tells(mappings[m], mappings[m].remote) \/ remoteEvents[mappings[m].remote].etag > cursor
    BY <1>4 DEF Covered, RowsCovered
  <2>3. mappings' = mappings
    OBVIOUS
  <2>4. CASE mappings[m].remote = x
    BY <1>1, <2>4
  <2>5. CASE mappings[m].remote # x
    BY <1>1, <1>2, <2>1, <2>2, <2>3, <2>5
  <2> QED BY <2>4, <2>5
<1> QED BY <1>3, <1>4 DEF Covered

LEMMA UnwrittenAfter ==
  ASSUME StoresTyped, UnusedIsUnwritten, NEW x \in RemoteIds, NEW c, c # Unused,
         remoteEvents' = [remoteEvents EXCEPT ![x] = [content |-> c, etag |-> tick + 1]]
  PROVE  UnusedIsUnwritten'
BY DEF StoresTyped, UnusedIsUnwritten

LEMMA CoveredUnchanged ==
  ASSUME Covered, UNCHANGED <<remoteEvents, mappings, cursor, missed>>
  PROVE  Covered'
BY DEF Covered, CursorCovered, RowsCovered, Tells

(* What is known of a run that settles something                            *)
Context(r) ==
  /\ CalendarTyped /\ CoverInv /\ WorksUnderLease /\ UNCHANGED leaseVars
  /\ r \in SyncRuns /\ Ready(r)

LEMMA ReadyAtWork ==
  ASSUME NEW r, Context(r)
  PROVE  /\ WorkTyped(syncs[r], tick) /\ syncs[r].todo = Nothing /\ ~ syncs[r].done
         /\ lapsed = {} =>
              /\ AtWork(r, syncs[r]) /\ Covered /\ syncs[r].maps = mappings
              /\ (r \notin disturbed => syncs[r].mine = localEvents)
BY ReadyTyped DEF Context, CoverInv, WorkInv, Begun, Ready, AtWork

LEMMA QuietlyGoesOn ==
  ASSUME NEW r, Context(r), NEW s, NEW x, Progress(r, s),
         s.upto = syncs[r].upto, s.maps = syncs[r].maps, ~ s.done,
         UNCHANGED <<remoteEvents, tick, mappings, cursor, unseen, users>>,
         lapsed = {} =>
           /\ OthersHold(r, s, s.todo, x)
           /\ r \notin disturbed => s.mine = localEvents'
           /\ Live(remoteEvents[x].content) => WrittenFor(s.todo, x) \/ Newer(r, s, x)
           /\ missed = {} => WrittenRowHolds(r, s, s.todo)
  PROVE  CoverInv'
<1>1. ASSUME lapsed = {}
      PROVE  AtWork(r, s)' /\ Covered'
  <2>1. cursor <= s.upto /\ s.maps = mappings /\ Covered
    BY <1>1, ReadyAtWork DEF AtWork
  <2>2. AtWork(r, s)'
    BY <1>1, <2>1, SettledQuietly DEF users
  <2>3. Covered'
    BY <2>1, CoveredUnchanged DEF users
  <2> QED BY <2>2, <2>3
<1>2. PairedUp(mappings') /\ UnusedIsUnwritten'
  BY DEF Context, CoverInv, PlainInv, PairedUp, UnusedIsUnwritten
<1> QED BY <1>1, <1>2, CoverGoesOn DEF Context, Ready

LEMMA WritingGoesOn ==
  ASSUME NEW r, Context(r), NEW s, NEW x \in RemoteIds, NEW c, c # Unused, Progress(r, s),
         s.upto = syncs[r].upto, s.maps = syncs[r].maps, s.mine = syncs[r].mine, ~ s.done,
         DOMAIN s.pulled \subseteq RemoteIds,
         tick' = tick + 1,
         remoteEvents' = [remoteEvents EXCEPT ![x] = [content |-> c, etag |-> tick + 1]],
         UNCHANGED <<localEvents, mappings, cursor, unseen, users>>,
         lapsed = {} =>
           /\ OthersHold(r, s, s.todo, x) /\ ~ Unsettled(s, x)
           /\ Live(c) => \E row \in Mapping : Writes(s.todo, row)
           /\ \A row \in Mapping : Writes(s.todo, row) =>
                row.remote = x /\ row.etag = tick + 1 /\ row.hash = c
  PROVE  CoverInv'
<1>0. StoresTyped
  BY DEF Context, CalendarTyped
<1>1. ASSUME lapsed = {}
      PROVE  AtWork(r, s)' /\ Covered'
  <2>1. cursor <= s.upto /\ s.maps = mappings /\ Covered /\ s.upto \in 0..tick
    BY <1>1, ReadyAtWork DEF AtWork, WorkTyped
  <2>2. r \notin disturbed => s.mine = localEvents
    BY <1>1, ReadyAtWork
  <2>3. AtWork(r, s)'
    BY <1>0, <1>1, <2>1, <2>2, SettledByWriting DEF users
  <2>4. Covered'
    BY <1>0, <2>1, CoveredWhenWritten DEF users
  <2> QED BY <2>3, <2>4
<1>2. PairedUp(mappings')
  BY DEF Context, CoverInv, PlainInv, PairedUp
<1>3. UnusedIsUnwritten'
  BY <1>0, UnwrittenAfter DEF Context, CoverInv, PlainInv
<1> QED BY <1>1, <1>2, <1>3, CoverGoesOn DEF Context, Ready

-----------------------------------------------------------------------------
(* Tasks                                                                    *)
LEMMA RowTask ==
  ASSUME PairedUp(mappings), NEW m \in MappingIds, Live(mappings[m]),
         NEW x, mappings[m].remote = x,
         NEW todo, todo.op \in {"update", "remove"}, todo.mapping = m
  PROVE  Touches(todo, x) /\ NoneKept(todo, x)
BY DEF Touches, NoneKept, Keeps, PairedUp

LEMMA NoRowTask ==
  ASSUME NEW todo, todo = Nothing \/ todo.op = "create", NEW x
  PROVE  /\ Touches(todo, x)
         /\ (\A m \in MappingIds : Live(mappings[m]) => mappings[m].remote # x) => NoneKept(todo, x)
BY DEF Touches, NoneKept, Keeps, Nothing

LEMMA MergedRow ==
  ASSUME NEW new, NEW old \in Mapping
  PROVE  /\ "local"  \notin DOMAIN new => Merged(new, old).local = old.local
         /\ Merged(new, old).remote = IF "remote" \in DOMAIN new THEN new.remote ELSE old.remote
         /\ Merged(new, old).etag = IF "etag" \in DOMAIN new THEN new.etag ELSE old.etag
         /\ Merged(new, old).hash = IF "hash" \in DOMAIN new THEN new.hash ELSE old.hash
BY DEF Merged, Mapping

(* A run that settles x has been told of x what is so still, unless a user  *)
(* has edited it since.                                                     *)
LEMMA RestFields ==
  ASSUME NEW r, Context(r), NEW x, Settles(r, x)
  PROVE  LET s == Rest(r, x) IN
         /\ DOMAIN s = DOMAIN NewSync
         /\ s.pulled = Without(syncs[r].pulled, x) /\ s.maps = syncs[r].maps
         /\ s.mine = syncs[r].mine /\ s.upto = syncs[r].upto /\ s.todo = Nothing /\ ~ s.done
         /\ DOMAIN s.pulled \subseteq RemoteIds /\ ~ Unsettled(s, x)
<1>1. WorkTyped(syncs[r], tick) /\ syncs[r].todo = Nothing /\ ~ syncs[r].done
  BY ReadyAtWork
<1>2. DOMAIN Without(syncs[r].pulled, x) = DOMAIN syncs[r].pulled \ {x}
  BY DEF Without
<1>3. DOMAIN syncs[r] = DOMAIN NewSync /\ DOMAIN syncs[r].pulled \subseteq RemoteIds
  BY <1>1 DEF WorkTyped, PulledTyped
<1>4. /\ DOMAIN Rest(r, x) = DOMAIN NewSync
      /\ Rest(r, x).pulled = Without(syncs[r].pulled, x)
      /\ Rest(r, x).maps = syncs[r].maps /\ Rest(r, x).mine = syncs[r].mine
      /\ Rest(r, x).upto = syncs[r].upto /\ Rest(r, x).todo = syncs[r].todo
      /\ Rest(r, x).done = syncs[r].done
  BY <1>3 DEF Rest, NewSync
<1> QED BY <1>1, <1>2, <1>3, <1>4 DEF Unsettled

LEMMA ToldOf ==
  ASSUME NEW r, Context(r), lapsed = {}, NEW x, Settles(r, x)
  PROVE  /\ syncs[r].pulled[x] = remoteEvents[x] \/ Newer(r, syncs[r], x)
         /\ syncs[r].pulled[x].content # Unused
BY ReadyAtWork DEF AtWork, PendingHolds, Settles

LEMMA WithTask ==
  ASSUME NEW s, DOMAIN s = DOMAIN NewSync, NEW todo, NEW mine
  PROVE  LET t == [s EXCEPT !.todo = todo]
             u == [s EXCEPT !.mine = mine, !.todo = todo] IN
         /\ t.pulled = s.pulled /\ t.maps = s.maps /\ t.mine = s.mine /\ t.upto = s.upto
         /\ t.todo = todo /\ t.done = s.done
         /\ u.pulled = s.pulled /\ u.maps = s.maps /\ u.mine = mine /\ u.upto = s.upto
         /\ u.todo = todo /\ u.done = s.done
BY DEF NewSync

(* The event x is settled by a task that rewrites x's row, if there is one. *)
LEMMA SettlesQuietly ==
  ASSUME NEW r, Context(r), NEW x, Settles(r, x), NEW s, Progress(r, s),
         s.upto = syncs[r].upto, s.maps = syncs[r].maps, ~ s.done,
         s.pulled = Without(syncs[r].pulled, x),
         UNCHANGED <<remoteEvents, tick, mappings, cursor, unseen, users>>,
         lapsed = {} =>
           /\ Touches(s.todo, x) /\ NoneKept(s.todo, x)
           /\ r \notin disturbed => s.mine = localEvents'
           /\ Live(remoteEvents[x].content) => WrittenFor(s.todo, x) \/ Newer(r, s, x)
           /\ WrittenRowHolds(r, s, s.todo)
  PROVE  CoverInv'
<1>1. ASSUME lapsed = {}
      PROVE  OthersHold(r, s, s.todo, x)
  <2>1. AtWork(r, syncs[r]) /\ syncs[r].todo = Nothing
    BY <1>1, ReadyAtWork
  <2> QED BY <1>1, <2>1, OthersLeftAlone
<1> QED BY <1>1, QuietlyGoesOn

LEMMA UnusedIsFree ==
  ASSUME NEW r, Context(r), lapsed = {}, NEW y \in RemoteIds, remoteEvents[y].content = Unused
  PROVE  /\ ~ Unsettled(syncs[r], y) /\ ~ Newer(r, syncs[r], y)
         /\ missed = {} => \A m \in MappingIds : Live(mappings[m]) => mappings[m].remote # y
<1>1. remoteEvents[y].etag = 0
  BY DEF Context, CoverInv, PlainInv, UnusedIsUnwritten
<1>2. AtWork(r, syncs[r]) /\ syncs[r].todo = Nothing /\ syncs[r].upto \in 0..tick
  BY ReadyAtWork DEF WorkTyped
<1>3. tick \in Nat /\ RowsTyped(mappings)
  BY DEF Context, CalendarTyped, StoresTyped
<1>4. ~ Newer(r, syncs[r], y)
  BY <1>1, <1>2, <1>3 DEF Newer
<1>5. ~ Unsettled(syncs[r], y)
  BY <1>2, <1>4 DEF AtWork, PendingHolds, Unsettled
<1>6. ASSUME missed = {}, NEW m \in MappingIds, Live(mappings[m]), mappings[m].remote = y
      PROVE  FALSE
  <2>1. Tells(mappings[m], y)
    BY <1>2, <1>4, <1>5, <1>6, NothingTouched DEF AtWork, KeptRowsHold, RowHolds
  <2>2. mappings[m] \in Mapping
    BY <1>3, <1>6 DEF RowsTyped, Maybe, Live
  <2> QED BY <2>1, <2>2, CalendarSyncAssumption DEF Tells, Mapping
<1> QED BY <1>4, <1>5, <1>6

LEMMA PullDeletionCovers ==
  ASSUME NEW r, Context(r), NEW x \in RemoteIds, PullDeletion(r, x)
  PROVE  CoverInv'
<1> DEFINE s == Rest(r, x)
<1>0. Settles(r, x) /\ syncs[r].pulled[x].content = Gone
  BY DEF PullDeletion
<1>1. /\ DOMAIN s = DOMAIN NewSync
      /\ s.pulled = Without(syncs[r].pulled, x) /\ s.maps = syncs[r].maps
      /\ s.mine = syncs[r].mine /\ s.upto = syncs[r].upto /\ s.todo = Nothing /\ ~ s.done
      /\ DOMAIN s.pulled \subseteq RemoteIds /\ ~ Unsettled(s, x)
  BY <1>0, RestFields
<1>2. lapsed = {} => s.maps = mappings /\ (r \notin disturbed => s.mine = localEvents)
  BY <1>1, ReadyAtWork
<1>3. lapsed = {} /\ Live(remoteEvents[x].content) => Newer(r, s, x) /\ Newer(r, syncs[r], x)
  BY <1>0, <1>1, ToldOf DEF Live, Newer
<1>4. CalendarTyped /\ PairedUp(mappings) /\ MineTyped(localEvents) /\ RowsTyped(mappings)
      /\ UnusedIsUnwritten /\ StoresTyped
  BY DEF Context, CoverInv, PlainInv, CalendarTyped, StoresTyped
<1>5. \A row : ~ Writes(Nothing, row) /\ \A m : ~ Writes(RemoveState(m), row)
  BY DEF Writes, Nothing, RemoveState
<1>6. WorkTyped(s, tick)
  BY <1>0, <1>4, RestTyped DEF Context
<1>7. CASE MappedTo(s, x) = {}
  <2>1. Progress(r, s)
        /\ UNCHANGED <<localEvents, remoteEvents, tick, mappings, cursor, unseen, users>>
    BY <1>7 DEF PullDeletion
  <2>2. lapsed = {} => Touches(s.todo, x) /\ NoneKept(s.todo, x)
    BY <1>1, <1>2, <1>7, NoRowTask DEF MappedTo
  <2>3. lapsed = {} => WrittenRowHolds(r, s, s.todo)
    BY <1>1, <1>5 DEF WrittenRowHolds
  <2>4. localEvents' = localEvents
    BY <2>1
  <2> HIDE DEF s
  <2> QED BY <1>0, <1>1, <1>2, <1>3, <2>1, <2>2, <2>3, <2>4, SettlesQuietly
<1>8. ASSUME NEW m \in MappedTo(s, x)
      PROVE  /\ m \in MappingIds /\ Live(s.maps[m])
             /\ lapsed = {} => Live(mappings[m]) /\ mappings[m].remote = x /\ mappings[m] \in Mapping
  BY <1>2, <1>4, <1>8 DEF MappedTo, RowsTyped, Maybe, Live
<1>9. ASSUME NEW m \in MappedTo(s, x), NEW t,
             t.pulled = s.pulled, t.maps = s.maps, t.upto = s.upto, ~ t.done,
             t.todo = RemoveState(m), Progress(r, t),
             UNCHANGED <<remoteEvents, tick, mappings, cursor, unseen, users>>,
             lapsed = {} /\ r \notin disturbed => t.mine = localEvents'
      PROVE  CoverInv'
  <2>1. t.todo.op = "remove" /\ t.todo.mapping = m
    BY <1>9 DEF RemoveState
  <2>2. lapsed = {} => Touches(t.todo, x) /\ NoneKept(t.todo, x)
    BY <1>4, <1>8, <1>9, <2>1, RowTask
  <2>3. lapsed = {} => WrittenRowHolds(r, t, t.todo)
    BY <1>5, <1>9 DEF WrittenRowHolds
  <2>4. lapsed = {} /\ Live(remoteEvents[x].content) => Newer(r, t, x)
    BY <1>3, <1>9 DEF Newer
  <2> HIDE DEF s
  <2> QED BY <1>0, <1>1, <1>9, <2>2, <2>3, <2>4, SettlesQuietly
<1>10. ASSUME NEW m \in MappedTo(s, x),
              Progress(r, [s EXCEPT !.todo = RemoveState(m)]),
              UNCHANGED <<localEvents, remoteEvents, tick, mappings, cursor, unseen, users>>
       PROVE  CoverInv'
  <2> DEFINE t == [s EXCEPT !.todo = RemoveState(m)]
  <2>1. /\ t.pulled = s.pulled /\ t.maps = s.maps /\ t.mine = s.mine /\ t.upto = s.upto
        /\ t.todo = RemoveState(m) /\ ~ t.done
    <3> HIDE DEF s
    <3> QED BY <1>1, WithTask
  <2>2. Progress(r, t)
    BY <1>10
  <2>3. lapsed = {} /\ r \notin disturbed => t.mine = localEvents'
    BY <1>2, <1>10, <2>1
  <2> HIDE DEF s, t
  <2> QED BY <1>9, <1>10, <2>1, <2>2, <2>3
<1>11. ASSUME NEW m \in MappedTo(s, x),
              localEvents' = [localEvents EXCEPT ![s.maps[m].local] = Gone],
              Progress(r, [s EXCEPT !.mine[s.maps[m].local] = Gone, !.todo = RemoveState(m)]),
              UNCHANGED <<remoteEvents, tick, mappings, cursor, unseen, users>>
       PROVE  CoverInv'
  <2> DEFINE mine == [s.mine EXCEPT ![s.maps[m].local] = Gone]
             t == [s EXCEPT !.mine = mine, !.todo = RemoveState(m)]
  <2>1. /\ t.pulled = s.pulled /\ t.maps = s.maps /\ t.mine = mine /\ t.upto = s.upto
        /\ t.todo = RemoveState(m) /\ ~ t.done
    <3> HIDE DEF s, mine
    <3> QED BY <1>1, WithTask
  <2>2. Progress(r, t)
    BY <1>11
  <2>3. lapsed = {} /\ r \notin disturbed => t.mine = localEvents'
    BY <1>2, <1>11, <2>1
  <2> HIDE DEF s, t
  <2> QED BY <1>9, <1>11, <2>1, <2>2, <2>3
<1>12. ASSUME NEW m \in MappedTo(s, x), Live(s.mine[s.maps[m].local]),
              PushNew(r, s, s.maps[m].local, [y \in RemoteIds |->
                UpdateState(m, [remote |-> y, etag |-> tick + 1,
                                hash |-> s.mine[s.maps[m].local]])])
       PROVE  CoverInv'
  <2> DEFINE c == s.mine[s.maps[m].local]
             Todo(y) == UpdateState(m, [remote |-> y, etag |-> tick + 1, hash |-> c])
  <2>1. PICK y \in RemoteIds :
          /\ remoteEvents[y].content = Unused /\ tick < MaxTick /\ tick' = tick + 1
          /\ remoteEvents' = [remoteEvents EXCEPT ![y] = [content |-> c, etag |-> tick + 1]]
          /\ Progress(r, [s EXCEPT !.todo = Todo(y)])
          /\ UNCHANGED <<localEvents, mappings, cursor, unseen, users>>
    BY <1>12 DEF PushNew
  <2> DEFINE todo == Todo(y)
             t == [s EXCEPT !.todo = todo]
  <2>2. /\ t.pulled = s.pulled /\ t.maps = s.maps /\ t.mine = s.mine /\ t.upto = s.upto
        /\ t.todo = todo /\ ~ t.done
    <3> HIDE DEF s, todo
    <3> QED BY <1>1, WithTask
  <2>3. todo.op = "update" /\ todo.mapping = m
        /\ todo.new = [remote |-> y, etag |-> tick + 1, hash |-> c]
    BY DEF UpdateState
  <2>4. c # Unused /\ c \in Contents
    <3>1. s.mine[s.maps[m].local] \in Maybe(Contents)
      <4> HIDE DEF s
      <4> QED BY <1>6, <1>8, RowKnown
    <3> QED BY <1>12, <3>1 DEF Live, Maybe
  <2>5. Progress(r, t)
    BY <2>1
  <2> HIDE DEF todo, c
  <2>6. ASSUME lapsed = {}
        PROVE  /\ \E row \in Mapping : Writes(todo, row)
               /\ \A row \in Mapping : Writes(todo, row) =>
                    row.remote = y /\ row.etag = tick + 1 /\ row.hash = c
    <3>1. tick + 1 \in 0..MaxTick
      BY <1>4, <2>1, CalendarSyncAssumption DEF StoresTyped
    <3>2. UpdateTyped(todo.new)
      BY <2>3, <2>4, <3>1 DEF UpdateTyped
    <3>3. mappings[m] \in Mapping
      BY <1>8, <2>6
    <3> DEFINE row == Merged(todo.new, mappings[m])
    <3>4. row \in Mapping
      BY <3>2, <3>3, MergedTyped
    <3>5. row.remote = y /\ row.etag = tick + 1 /\ row.hash = c
      BY <2>3, <3>3, MergedRow
    <3>6. \A any : Writes(todo, any) <=> any = row
      BY <2>3 DEF Writes
    <3> HIDE DEF row
    <3> QED BY <3>4, <3>5, <3>6
  <2>7. ASSUME lapsed = {}
        PROVE  OthersHold(r, t, todo, y) /\ ~ Unsettled(t, y)
    <3>1. Touches(todo, x) /\ NoneKept(todo, x)
      BY <1>4, <1>8, <2>3, <2>7, RowTask
    <3>2. OthersHold(r, t, todo, x)
      <4>1. AtWork(r, syncs[r]) /\ syncs[r].todo = Nothing
        BY <2>7, ReadyAtWork
      <4>2. t.upto = syncs[r].upto /\ t.pulled = Without(syncs[r].pulled, x)
        BY <1>1, <2>2
      <4> HIDE DEF s, t
      <4> QED BY <3>1, <4>1, <4>2, OthersLeftAlone
    <3>3. /\ ~ Unsettled(syncs[r], y)
          /\ missed = {} => \A n \in MappingIds : Live(mappings[n]) => mappings[n].remote # y
      BY <2>1, <2>7, UnusedIsFree
    <3>4. ~ Unsettled(t, y)
      BY <1>1, <2>2, <3>3 DEF Unsettled, Without
    <3>5. Live(remoteEvents[x].content) => Newer(r, t, x)
      BY <1>3, <2>2, <2>7 DEF Newer
    <3> HIDE DEF s, t
    <3> QED BY <3>2, <3>3, <3>4, <3>5 DEF OthersHold, NoneKept
  <2> HIDE DEF s, t
  <2> QED BY <1>1, <2>1, <2>2, <2>4, <2>5, <2>6, <2>7, WritingGoesOn
<1> QED BY <1>7, <1>10, <1>11, <1>12 DEF PullDeletion

(* A push of a change that the mapping m tells the run of                   *)
LEMMA PushChangedCovers ==
  ASSUME NEW r, Context(r), NEW s, WorkTyped(s, tick),
         s.maps = syncs[r].maps, s.mine = syncs[r].mine, s.upto = syncs[r].upto, ~ s.done,
         NEW m \in MappingIds, Live(s.maps[m]), Live(s.mine[s.maps[m].local]),
         s.pulled \in {syncs[r].pulled, Without(syncs[r].pulled, s.maps[m].remote)},
         ~ Unsettled(s, s.maps[m].remote),
         PushChanged(r, s, m)
  PROVE  CoverInv'
<1> DEFINE x == s.maps[m].remote
           c == s.mine[s.maps[m].local]
           todo == UpdateState(m, [remote |-> x, etag |-> tick + 1, hash |-> c])
           t == [s EXCEPT !.todo = todo]
<1>1. x \in RemoteIds /\ c \in Contents /\ c # Unused
  <2>1. s.maps[m] \in Mapping /\ c \in Maybe(Contents)
    BY RowKnown
  <2> QED BY <2>1 DEF Mapping, Live, Maybe
<1>2. /\ Progress(r, t) /\ tick < MaxTick
      /\ tick' = tick + 1 /\ UNCHANGED <<localEvents, mappings, cursor, unseen, users>>
      /\ remoteEvents' = [remoteEvents EXCEPT ![x] = [content |-> c, etag |-> tick + 1]]
  BY DEF PushChanged
<1>3. todo.op = "update" /\ todo.mapping = m
      /\ todo.new = [remote |-> x, etag |-> tick + 1, hash |-> c]
  BY DEF UpdateState
<1>4. /\ t.pulled = s.pulled /\ t.maps = s.maps /\ t.mine = s.mine /\ t.upto = s.upto
      /\ t.todo = todo /\ ~ t.done
  <2> HIDE DEF todo
  <2> QED BY WithTask DEF WorkTyped
<1>5. DOMAIN t.pulled \subseteq RemoteIds
  BY <1>4 DEF WorkTyped, PulledTyped
<1> HIDE DEF x, c, todo, t
<1>6. PairedUp(mappings) /\ RowsTyped(mappings) /\ tick \in 0..MaxTick
  BY DEF Context, CoverInv, PlainInv, CalendarTyped, StoresTyped
<1>7. ASSUME lapsed = {}
      PROVE  /\ OthersHold(r, t, todo, x) /\ ~ Unsettled(t, x)
             /\ \E row \in Mapping : Writes(todo, row)
             /\ \A row \in Mapping : Writes(todo, row) =>
                  row.remote = x /\ row.etag = tick + 1 /\ row.hash = c
  <2>1. s.maps = mappings /\ AtWork(r, syncs[r]) /\ syncs[r].todo = Nothing
    BY <1>7, ReadyAtWork
  <2>2. Live(mappings[m]) /\ mappings[m].remote = x /\ mappings[m] \in Mapping
    BY <1>6, <2>1 DEF x, RowsTyped, Live, Maybe
  <2>3. Touches(todo, x) /\ NoneKept(todo, x)
    BY <1>3, <1>6, <2>2, RowTask
  <2>4. t.upto = syncs[r].upto /\ t.pulled \in {syncs[r].pulled, Without(syncs[r].pulled, x)}
    BY <1>4 DEF x
  <2>5. OthersHold(r, t, todo, x)
    BY <2>1, <2>3, <2>4, OthersLeftAlone
  <2>6. UpdateTyped(todo.new)
    BY <1>1, <1>2, <1>3, <1>6, CalendarSyncAssumption DEF UpdateTyped
  <2> DEFINE row == Merged(todo.new, mappings[m])
  <2>7. row \in Mapping
    BY <2>2, <2>6, MergedTyped
  <2>8. row.remote = x /\ row.etag = tick + 1 /\ row.hash = c
    BY <1>3, <2>2, MergedRow
  <2>9. \A any : Writes(todo, any) <=> any = row
    BY <1>3 DEF Writes
  <2>10. ~ Unsettled(t, x)
    BY <1>4 DEF x, Unsettled
  <2> HIDE DEF row
  <2> QED BY <2>5, <2>7, <2>8, <2>9, <2>10
<1> QED BY <1>1, <1>2, <1>4, <1>5, <1>7, WritingGoesOn

(* A push of an event that has no mapping                                   *)
LEMMA PushEventCovers ==
  ASSUME NEW r, Context(r), NEW l \in LocalIds, PushEvent(r, l)
  PROVE  CoverInv'
<1> DEFINE s == syncs[r]
           c == s.mine[l]
           Todo(y) == CreateState([local |-> l, remote |-> y, etag |-> tick + 1, hash |-> c])
<1>1. WorkTyped(s, tick) /\ s.todo = Nothing /\ ~ s.done /\ Live(c) /\ s.pulled = s.pulled
      /\ DOMAIN s.pulled = {}
  BY ReadyAtWork DEF PushEvent, AllPulled, ToPush
<1>2. ASSUME NEW m \in MappedBy(s, l), PushChanged(r, s, m)
      PROVE  CoverInv'
  <2>1. m \in MappingIds /\ Live(s.maps[m]) /\ Live(s.mine[s.maps[m].local])
    BY <1>1 DEF MappedBy
  <2>2. ~ Unsettled(s, s.maps[m].remote)
    BY <1>1 DEF Unsettled
  <2> QED BY <1>1, <1>2, <2>1, <2>2, PushChangedCovers
<1>3. ASSUME PushNew(r, s, l, [y \in RemoteIds |-> Todo(y)])
      PROVE  CoverInv'
  <2>1. PICK y \in RemoteIds :
          /\ remoteEvents[y].content = Unused /\ tick < MaxTick /\ tick' = tick + 1
          /\ remoteEvents' = [remoteEvents EXCEPT ![y] = [content |-> c, etag |-> tick + 1]]
          /\ Progress(r, [s EXCEPT !.todo = Todo(y)])
          /\ UNCHANGED <<localEvents, mappings, cursor, unseen, users>>
    BY <1>3 DEF PushNew
  <2> DEFINE row == [local |-> l, remote |-> y, etag |-> tick + 1, hash |-> c]
             todo == CreateState(row)
             t == [s EXCEPT !.todo = todo]
  <2>2. /\ t.pulled = s.pulled /\ t.maps = s.maps /\ t.mine = s.mine /\ t.upto = s.upto
        /\ t.todo = todo /\ ~ t.done
    <3> HIDE DEF todo
    <3> QED BY <1>1, WithTask DEF WorkTyped
  <2>3. todo.op = "create" /\ todo.row = row
    BY DEF CreateState
  <2>4. c \in Contents /\ c # Unused /\ tick + 1 \in 0..MaxTick
    <3>1. c \in Maybe(Contents) /\ tick \in 0..MaxTick
      BY <1>1 DEF WorkTyped, MineTyped, Context, CalendarTyped, StoresTyped
    <3> QED BY <1>1, <2>1, <3>1, CalendarSyncAssumption DEF Live, Maybe
  <2> HIDE DEF c
  <2>5. row \in Mapping /\ row.remote = y /\ row.etag = tick + 1 /\ row.hash = c
    BY <2>4 DEF Mapping
  <2>6. \A any : Writes(todo, any) <=> any = row
    BY <2>3 DEF Writes
  <2>7. Progress(r, t)
    BY <2>1
  <2>8. DOMAIN t.pulled \subseteq RemoteIds
    BY <1>1, <2>2
  <2>9. ASSUME lapsed = {}
        PROVE  OthersHold(r, t, todo, y) /\ ~ Unsettled(t, y)
    <3>1. missed = {} => \A m \in MappingIds : Live(mappings[m]) => mappings[m].remote # y
      BY <2>1, <2>9, UnusedIsFree
    <3>2. Touches(todo, y) /\ (missed = {} => NoneKept(todo, y))
      BY <2>3, <3>1, NoRowTask
    <3>3. AtWork(r, syncs[r]) /\ syncs[r].todo = Nothing
      BY <2>9, ReadyAtWork
    <3>4. t.upto = syncs[r].upto /\ t.pulled \in {syncs[r].pulled, Without(syncs[r].pulled, y)}
      BY <2>2
    <3>5. OthersHold(r, t, todo, y)
      <4> HIDE DEF t, todo
      <4> QED BY <3>2, <3>3, <3>4, OthersLeftAlone
    <3> QED BY <1>1, <2>2, <3>5 DEF Unsettled
  <2> HIDE DEF s, t, todo, row
  <2> QED BY <2>1, <2>2, <2>4, <2>5, <2>6, <2>7, <2>8, <2>9, WritingGoesOn DEF s
<1>4. PushNew(r, s, l, [y \in RemoteIds |-> Todo(y)]) \/ \E m \in MappedBy(s, l) : PushChanged(r, s, m)
  BY DEF PushEvent
<1> QED BY <1>2, <1>3, <1>4

LEMMA RemoveThereCovers ==
  ASSUME NEW r, Context(r), NEW m \in MappingIds, RemoveThere(r, m)
  PROVE  CoverInv'
<1> DEFINE s == syncs[r]
           x == s.maps[m].remote
           todo == RemoveState(m)
           t == [s EXCEPT !.todo = todo]
<1>1. WorkTyped(s, tick) /\ s.todo = Nothing /\ ~ s.done /\ Live(s.maps[m])
      /\ DOMAIN s.pulled = {}
  BY ReadyAtWork DEF RemoveThere, AllPulled, ToRemove
<1>2. x \in RemoteIds
  BY <1>1, RowKnown DEF Mapping
<1>3. /\ t.pulled = s.pulled /\ t.maps = s.maps /\ t.mine = s.mine /\ t.upto = s.upto
      /\ t.todo = todo /\ ~ t.done
  <2> HIDE DEF todo
  <2> QED BY <1>1, WithTask DEF WorkTyped
<1>4. todo.op = "remove" /\ todo.mapping = m /\ (\A row : ~ Writes(todo, row))
  BY DEF RemoveState, Writes
<1>5. /\ Progress(r, t)
      /\ tick' = tick + 1 /\ UNCHANGED <<localEvents, mappings, cursor, unseen, users>>
      /\ remoteEvents' = [remoteEvents EXCEPT ![x] = [content |-> Gone, etag |-> tick + 1]]
  BY DEF RemoveThere
<1>6. DOMAIN t.pulled \subseteq RemoteIds
  BY <1>1, <1>3
<1>7. ASSUME lapsed = {}
      PROVE  OthersHold(r, t, todo, x) /\ ~ Unsettled(t, x)
  <2>1. s.maps = mappings /\ AtWork(r, syncs[r]) /\ syncs[r].todo = Nothing
    BY <1>7, ReadyAtWork
  <2>2. Live(mappings[m]) /\ mappings[m].remote = x /\ PairedUp(mappings)
    BY <1>1, <2>1 DEF Context, CoverInv, PlainInv
  <2>3. Touches(todo, x) /\ NoneKept(todo, x)
    BY <1>4, <2>2, RowTask
  <2>4. t.upto = syncs[r].upto /\ t.pulled \in {syncs[r].pulled, Without(syncs[r].pulled, x)}
    BY <1>3
  <2>5. OthersHold(r, t, todo, x)
    <3> HIDE DEF x, t, todo
    <3> QED BY <2>1, <2>3, <2>4, OthersLeftAlone
  <2> QED BY <1>1, <1>3, <2>5 DEF Unsettled
<1>8. ~ Live(Gone) /\ Gone # Unused
  BY CalendarSyncAssumption DEF Live
<1> HIDE DEF s, x, t, todo
<1> QED BY <1>2, <1>3, <1>4, <1>5, <1>6, <1>7, <1>8, WritingGoesOn DEF s

(* A task that writes, for event x, what the run was told of x              *)
LEMMA ToldRowHolds ==
  ASSUME NEW r, NEW s, NEW x, NEW it, it = remoteEvents[x] \/ Newer(r, s, x), Live(it.content),
         NEW row \in Mapping, row.remote = x, row.etag = it.etag, row.hash = it.content
  PROVE  RowHolds(r, s, row) /\ (Tells(row, x) \/ Newer(r, s, x))
BY MarksAssumption DEF RowHolds, Tells, Live

LEMMA PullNewCovers ==
  ASSUME NEW r, Context(r), NEW x \in RemoteIds, PullNew(r, x)
  PROVE  CoverInv'
<1> DEFINE s == Rest(r, x)
           it == syncs[r].pulled[x]
           Todo(l) == IF MappedTo(s, x) = {}
                      THEN CreateState([local |-> l, remote |-> x, etag |-> it.etag,
                                        hash |-> it.content])
                      ELSE UpdateState(CHOOSE m \in MappedTo(s, x) : TRUE,
                             [local |-> l, etag |-> it.etag, hash |-> it.content])
<1>0. Settles(r, x) /\ Live(it.content)
  BY DEF PullNew
<1>1. /\ DOMAIN s = DOMAIN NewSync
      /\ s.pulled = Without(syncs[r].pulled, x) /\ s.maps = syncs[r].maps
      /\ s.mine = syncs[r].mine /\ s.upto = syncs[r].upto /\ ~ s.done
  BY <1>0, RestFields
<1>2. lapsed = {} => s.maps = mappings /\ (r \notin disturbed => s.mine = localEvents)
  BY <1>1, ReadyAtWork
<1>3. CalendarTyped /\ PairedUp(mappings) /\ RowsTyped(mappings)
  BY DEF Context, CoverInv, PlainInv, CalendarTyped, StoresTyped
<1>4. it \in Remote /\ it.etag \in 0..MaxTick /\ it.content \in Contents
  <2>1. it \in Remote
    BY <1>0, <1>3, RestTyped DEF Context
  <2> HIDE DEF it
  <2> QED BY <1>0, <2>1, LiveContent DEF Remote
<1>5. PICK l \in LocalIds :
        /\ localEvents' = [localEvents EXCEPT ![l] = it.content]
        /\ Progress(r, [s EXCEPT !.mine[l] = it.content, !.todo = Todo(l)])
  BY DEF PullNew
<1> DEFINE mine == [s.mine EXCEPT ![l] = it.content]
           todo == Todo(l)
           t == [s EXCEPT !.mine = mine, !.todo = todo]
<1>6. /\ t.pulled = s.pulled /\ t.maps = s.maps /\ t.mine = mine /\ t.upto = s.upto
      /\ t.todo = todo /\ ~ t.done
  <2> HIDE DEF s, mine, todo
  <2> QED BY <1>1, WithTask
<1>7. Progress(r, t)
  BY <1>5
<1>8. UNCHANGED <<remoteEvents, tick, mappings, cursor, unseen, users>>
  BY DEF PullNew
<1>9. ASSUME lapsed = {}
      PROVE  /\ Touches(todo, x) /\ NoneKept(todo, x)
             /\ \E row \in Mapping : Writes(todo, row)
             /\ \A row \in Mapping : Writes(todo, row) =>
                  row.remote = x /\ row.etag = it.etag /\ row.hash = it.content
  <2>1. CASE MappedTo(s, x) = {}
    <3> DEFINE row == [local |-> l, remote |-> x, etag |-> it.etag, hash |-> it.content]
    <3>1. todo = CreateState(row)
      BY <2>1
    <3>2. todo.op = "create" /\ todo.row = row
      BY <3>1 DEF CreateState
    <3> HIDE DEF it, todo
    <3>3. row \in Mapping /\ row.remote = x /\ row.etag = it.etag /\ row.hash = it.content
      BY <1>4 DEF Mapping
    <3>4. \A m \in MappingIds : Live(mappings[m]) => mappings[m].remote # x
      <4> HIDE DEF s
      <4> QED BY <1>2, <1>9, <2>1 DEF MappedTo
    <3>5. \A any : Writes(todo, any) <=> any = row
      BY <3>2 DEF Writes
    <3>6. Touches(todo, x) /\ NoneKept(todo, x)
      BY <3>2, <3>4, NoRowTask
    <3> HIDE DEF row
    <3> QED BY <3>3, <3>5, <3>6
  <2>2. CASE MappedTo(s, x) # {}
    <3> DEFINE m == CHOOSE m \in MappedTo(s, x) : TRUE
               new == [local |-> l, etag |-> it.etag, hash |-> it.content]
    <3>1. todo = UpdateState(m, new)
      BY <2>2
    <3>2. todo.op = "update" /\ todo.mapping = m /\ todo.new = new
      BY <3>1 DEF UpdateState
    <3>3. m \in MappedTo(s, x)
      <4> HIDE DEF s
      <4> QED BY <2>2
    <3> HIDE DEF it, todo, m
    <3>4. /\ m \in MappingIds /\ Live(mappings[m]) /\ mappings[m].remote = x
          /\ mappings[m] \in Mapping
      <4> HIDE DEF s
      <4> QED BY <1>2, <1>3, <1>9, <3>3 DEF MappedTo, RowsTyped, Maybe, Live
    <3>5. UpdateTyped(new)
      BY <1>4 DEF UpdateTyped
    <3> DEFINE row == Merged(new, mappings[m])
    <3>6. row \in Mapping
      <4> HIDE DEF new
      <4> QED BY <3>4, <3>5, MergedTyped
    <3>7. row.remote = x /\ row.etag = it.etag /\ row.hash = it.content
      BY <3>4, MergedRow
    <3>8. \A any : Writes(todo, any) <=> any = row
      BY <3>2 DEF Writes
    <3>9. Touches(todo, x) /\ NoneKept(todo, x)
      BY <1>3, <3>2, <3>4, RowTask
    <3> HIDE DEF row
    <3> QED BY <3>6, <3>7, <3>8, <3>9
  <2> QED BY <2>1, <2>2
<1>10. ASSUME lapsed = {}
       PROVE  /\ r \notin disturbed => t.mine = localEvents'
              /\ Live(remoteEvents[x].content) => WrittenFor(todo, x) \/ Newer(r, t, x)
              /\ WrittenRowHolds(r, t, todo)
  <2>1. it = remoteEvents[x] \/ Newer(r, t, x)
    BY <1>0, <1>1, <1>6, <1>10, ToldOf DEF Newer
  <2>2. r \notin disturbed => t.mine = localEvents'
    BY <1>2, <1>5, <1>6, <1>10
  <2> HIDE DEF it, todo, t
  <2>3. \A row \in Mapping : Writes(todo, row) =>
          RowHolds(r, t, row) /\ (Tells(row, x) \/ Newer(r, t, x))
    BY <1>0, <1>9, <1>10, <2>1, ToldRowHolds
  <2> QED BY <1>9, <1>10, <2>2, <2>3 DEF WrittenFor, WrittenRowHolds
<1> HIDE DEF s, it, todo, t, mine
<1> QED BY <1>0, <1>1, <1>6, <1>7, <1>8, <1>9, <1>10, SettlesQuietly

LEMMA PullChangeCovers ==
  ASSUME NEW r, Context(r), NEW x \in RemoteIds, NEW resolution, PullChange(r, x, resolution)
  PROVE  CoverInv'
<1> DEFINE s == Rest(r, x)
           it == syncs[r].pulled[x]
<1>0. Settles(r, x) /\ Live(it.content)
  BY DEF PullChange
<1>1. /\ DOMAIN s = DOMAIN NewSync
      /\ s.pulled = Without(syncs[r].pulled, x) /\ s.maps = syncs[r].maps
      /\ s.mine = syncs[r].mine /\ s.upto = syncs[r].upto /\ ~ s.done /\ ~ Unsettled(s, x)
  BY <1>0, RestFields
<1>2. lapsed = {} => s.maps = mappings /\ (r \notin disturbed => s.mine = localEvents)
  BY <1>1, ReadyAtWork
<1>3. CalendarTyped /\ PairedUp(mappings) /\ RowsTyped(mappings)
  BY DEF Context, CoverInv, PlainInv, CalendarTyped, StoresTyped
<1>4. /\ it \in Remote /\ it.etag \in 0..MaxTick /\ it.content \in Contents
      /\ WorkTyped(s, tick)
  <2>1. it \in Remote /\ WorkTyped(s, tick)
    BY <1>0, <1>3, RestTyped DEF Context
  <2> HIDE DEF it, s
  <2> QED BY <1>0, <2>1, LiveContent DEF Remote
<1>5. PICK m \in MappedTo(s, x) :
        LET l == s.maps[m].local IN
        /\ Live(s.mine[l])
        /\ \/ /\ s.maps[m].hash = it.content
              /\ Progress(r, [s EXCEPT !.todo = UpdateState(m, [etag |-> it.etag])])
              /\ UNCHANGED <<localEvents, remoteEvents, tick, mappings, cursor, unseen, users>>
           \/ PushChanged(r, s, m)
           \/ /\ localEvents' = [localEvents EXCEPT ![l] = it.content]
              /\ Progress(r, [s EXCEPT !.mine[l] = it.content,
                     !.todo = UpdateState(m, [etag |-> it.etag, hash |-> it.content])])
              /\ UNCHANGED <<remoteEvents, tick, mappings, cursor, unseen, users>>
  <2>1. \A a, b, c : "UNCHANGED" \in Resolutions(a, b, c) => c = b
    BY DEF Resolutions
  <2>2. ASSUME NEW m \in MappedTo(s, x), resolution = "UNCHANGED",
               resolution \in Resolutions(s.mine[s.maps[m].local], it.content, s.maps[m].hash)
        PROVE  s.maps[m].hash = it.content
    BY <2>1, <2>2
  <2>3. PICK m \in MappedTo(s, x) :
          LET l == s.maps[m].local IN
          /\ Live(s.mine[l])
          /\ resolution \in Resolutions(s.mine[l], it.content, s.maps[m].hash)
          /\ \/ /\ resolution = "UNCHANGED"
                /\ Progress(r, [s EXCEPT !.todo = UpdateState(m, [etag |-> it.etag])])
                /\ UNCHANGED <<localEvents, remoteEvents, tick, mappings, cursor, unseen, users>>
             \/ PushChanged(r, s, m)
             \/ /\ localEvents' = [localEvents EXCEPT ![l] = it.content]
                /\ Progress(r, [s EXCEPT !.mine[l] = it.content,
                       !.todo = UpdateState(m, [etag |-> it.etag, hash |-> it.content])])
                /\ UNCHANGED <<remoteEvents, tick, mappings, cursor, unseen, users>>
    BY DEF PullChange
  <2> HIDE DEF s, it
  <2> QED BY <2>2, <2>3
<1>6. m \in MappingIds /\ Live(s.maps[m]) /\ s.maps[m].remote = x
  BY DEF MappedTo
<1>7. CASE PushChanged(r, s, m)
  <2>1. Live(s.mine[s.maps[m].local])
    BY <1>5
  <2> HIDE DEF s
  <2> QED BY <1>1, <1>4, <1>6, <1>7, <2>1, PushChangedCovers
<1>8. ASSUME NEW t, NEW new, Progress(r, t),
             t.pulled = s.pulled, t.maps = s.maps, t.upto = s.upto, ~ t.done,
             t.todo = UpdateState(m, new), UpdateTyped(new), DOMAIN new \subseteq {"etag", "hash"},
             "etag" \in DOMAIN new, new.etag = it.etag,
             IF "hash" \in DOMAIN new THEN new.hash = it.content ELSE s.maps[m].hash = it.content,
             lapsed = {} /\ r \notin disturbed => t.mine = localEvents',
             UNCHANGED <<remoteEvents, tick, mappings, cursor, unseen, users>>
      PROVE  CoverInv'
  <2> HIDE DEF s
  <2>1. t.todo.op = "update" /\ t.todo.mapping = m /\ t.todo.new = new
    BY <1>8 DEF UpdateState
  <2>2. ASSUME lapsed = {}
        PROVE  /\ Touches(t.todo, x) /\ NoneKept(t.todo, x)
               /\ WrittenFor(t.todo, x) \/ Newer(r, t, x)
               /\ WrittenRowHolds(r, t, t.todo)
    <3>1. Live(mappings[m]) /\ mappings[m].remote = x /\ mappings[m] \in Mapping
      BY <1>2, <1>3, <1>6, <2>2 DEF RowsTyped, Maybe, Live
    <3> DEFINE row == Merged(new, mappings[m])
    <3>2. row \in Mapping
      BY <1>8, <3>1, MergedTyped
    <3>3. row.remote = x /\ row.etag = it.etag /\ row.hash = it.content
      <4>1. "remote" \notin DOMAIN new /\ mappings[m].hash = s.maps[m].hash
        BY <1>2, <1>8, <2>2
      <4> HIDE DEF it
      <4>2. row.remote = mappings[m].remote /\ row.etag = new.etag
            /\ row.hash = IF "hash" \in DOMAIN new THEN new.hash ELSE mappings[m].hash
        BY <1>8, <3>1, <4>1, MergedRow
      <4> QED BY <1>8, <3>1, <4>1, <4>2
    <3>4. \A any : Writes(t.todo, any) <=> any = row
      BY <2>1 DEF Writes
    <3>5. Touches(t.todo, x) /\ NoneKept(t.todo, x)
      BY <1>3, <1>6, <2>1, <3>1, RowTask
    <3>6. it = remoteEvents[x] \/ Newer(r, t, x)
      BY <1>0, <1>1, <1>8, <2>2, ToldOf DEF Newer
    <3> HIDE DEF row, it
    <3>7. RowHolds(r, t, row) /\ (Tells(row, x) \/ Newer(r, t, x))
      BY <1>0, <3>2, <3>3, <3>6, ToldRowHolds
    <3> QED BY <3>2, <3>4, <3>5, <3>7 DEF WrittenFor, WrittenRowHolds
  <2> QED BY <1>0, <1>1, <1>8, <2>2, SettlesQuietly
<1>9. ASSUME s.maps[m].hash = it.content,
             Progress(r, [s EXCEPT !.todo = UpdateState(m, [etag |-> it.etag])]),
             UNCHANGED <<localEvents, remoteEvents, tick, mappings, cursor, unseen, users>>
      PROVE  CoverInv'
  <2> DEFINE new == [etag |-> it.etag]
             t == [s EXCEPT !.todo = UpdateState(m, new)]
  <2>1. /\ t.pulled = s.pulled /\ t.maps = s.maps /\ t.mine = s.mine /\ t.upto = s.upto
        /\ t.todo = UpdateState(m, new) /\ ~ t.done
    <3> HIDE DEF s, new
    <3> QED BY <1>1, WithTask
  <2>2. Progress(r, t)
    BY <1>9
  <2>3. UpdateTyped(new) /\ DOMAIN new = {"etag"} /\ new.etag = it.etag
    <3> HIDE DEF it
    <3> QED BY <1>4 DEF UpdateTyped
  <2>4. lapsed = {} /\ r \notin disturbed => t.mine = localEvents'
    BY <1>2, <1>9, <2>1
  <2> HIDE DEF s, it, new, t
  <2> QED BY <1>8, <1>9, <2>1, <2>2, <2>3, <2>4
<1>10. ASSUME localEvents' = [localEvents EXCEPT ![s.maps[m].local] = it.content],
              Progress(r, [s EXCEPT !.mine[s.maps[m].local] = it.content,
                     !.todo = UpdateState(m, [etag |-> it.etag, hash |-> it.content])]),
              UNCHANGED <<remoteEvents, tick, mappings, cursor, unseen, users>>
       PROVE  CoverInv'
  <2> DEFINE new == [etag |-> it.etag, hash |-> it.content]
             mine == [s.mine EXCEPT ![s.maps[m].local] = it.content]
             t == [s EXCEPT !.mine = mine, !.todo = UpdateState(m, new)]
  <2>1. /\ t.pulled = s.pulled /\ t.maps = s.maps /\ t.mine = mine /\ t.upto = s.upto
        /\ t.todo = UpdateState(m, new) /\ ~ t.done
    <3> HIDE DEF s, new, mine
    <3> QED BY <1>1, WithTask
  <2>2. Progress(r, t)
    BY <1>10
  <2>3. UpdateTyped(new) /\ DOMAIN new = {"etag", "hash"} /\ new.etag = it.etag
        /\ new.hash = it.content
    <3> HIDE DEF it
    <3> QED BY <1>4 DEF UpdateTyped
  <2>4. lapsed = {} /\ r \notin disturbed => t.mine = localEvents'
    BY <1>2, <1>10, <2>1
  <2> HIDE DEF s, it, new, t, mine
  <2> QED BY <1>8, <1>10, <2>1, <2>2, <2>3, <2>4
<1> QED BY <1>5, <1>7, <1>9, <1>10

(* A task is saved: the table is what it was to become.                     *)
LEMMA SaveMappingCovers ==
  ASSUME CalendarTyped, CoverInv, WorksUnderLease, UNCHANGED leaseVars,
         NEW r \in SyncRuns, SaveMapping(r)
  PROVE  CoverInv'
<1> DEFINE s == syncs[r]
           t == s.todo
           Stored(i) == CASE t.op = "create" -> t.row
                          [] t.op = "update" -> Merged(t.new, mappings[i])
                          [] t.op = "remove" -> Gone
<1>1. PICK m \in MappingIds :
        /\ IF t.op = "create" THEN mappings[m] = Unused
           ELSE m = t.mapping /\ Live(mappings[m])
        /\ mappings' = [mappings EXCEPT ![m] = Stored(m)]
        /\ PairedUp(mappings')
        /\ Progress(r, [s EXCEPT !.maps[m] = Stored(m), !.todo = Nothing])
  BY DEF SaveMapping
<1> DEFINE saved == Stored(m)
           maps == [s.maps EXCEPT ![m] = saved]
           rest == [s EXCEPT !.maps = maps, !.todo = Nothing]
<1>2. SyncTyped(s, tick) /\ RowsTyped(mappings) /\ t # Nothing /\ syncRuns[r].phase = "working"
  BY DEF CalendarTyped, SyncsTyped, StoresTyped, SaveMapping
<1>3. TaskTyped(t) /\ DOMAIN s = DOMAIN NewSync /\ ~ s.done
  BY <1>2 DEF SyncTyped, CoverInv, PlainInv
<1>4. RowsTyped(mappings')
  BY SaveMappingTyped DEF CalendarTyped, StoresTyped
<1>5. UNCHANGED <<localEvents, remoteEvents, tick, cursor, unseen, users>>
  BY DEF SaveMapping
<1>0. PICK new : new = rest
  OBVIOUS
<1>6. /\ new.maps = maps /\ new.todo = Nothing /\ new.pulled = s.pulled /\ new.mine = s.mine
      /\ new.upto = s.upto /\ ~ new.done
  <2> HIDE DEF s, maps
  <2> QED BY <1>0, <1>3 DEF NewSync
<1>7. Progress(r, new)
  <2>1. Progress(r, rest)
    BY <1>1
  <2> HIDE DEF rest
  <2> QED BY <1>0, <2>1
<1> HIDE DEF rest
<1>8. /\ DOMAIN mappings = MappingIds /\ mappings'[m] = saved
      /\ \A n \in MappingIds : n # m => mappings'[n] = mappings[n]
  <2> HIDE DEF saved
  <2> QED BY <1>1, <1>2 DEF RowsTyped, saved
<1>9. \A n \in MappingIds : Keeps(t, n) /\ Live(mappings[n]) => mappings'[n] = mappings[n]
  <2>1. \A n \in MappingIds : Keeps(t, n) /\ Live(mappings[n]) => n # m
    BY <1>1, <1>2, <1>3 DEF Keeps, TaskTyped, Live
  <2> QED BY <1>8, <2>1
<1>10. \A row : Writes(t, row) => mappings'[m] = row
  <2>1. CASE t.op = "create"
    BY <1>8, <2>1 DEF Writes
  <2>2. CASE t.op = "update"
    BY <1>1, <1>8, <2>2 DEF Writes
  <2> QED BY <2>1, <2>2 DEF Writes
<1>11. ASSUME NEW n \in MappingIds, Live(mappings'[n])
       PROVE  \/ Writes(t, mappings'[n])
              \/ Live(mappings[n]) /\ Keeps(t, n) /\ mappings'[n] = mappings[n]
  <2>1. CASE n = m
    <3>1. t.op # "remove"
      BY <1>8, <1>11, <2>1 DEF Live
    <3>2. CASE t.op = "create"
      BY <1>8, <2>1, <3>2 DEF Writes
    <3>3. CASE t.op = "update"
      BY <1>1, <1>8, <2>1, <3>3 DEF Writes
    <3> QED BY <1>2, <1>3, <3>1, <3>2, <3>3 DEF TaskTyped
  <2>2. CASE n # m
    BY <1>1, <1>8, <1>11, <2>2 DEF Keeps
  <2> QED BY <2>1, <2>2
<1> HIDE DEF saved
<1>12. ASSUME lapsed = {}
       PROVE  AtWork(r, new)' /\ Covered'
  <2>1. AtWork(r, s) /\ Covered
    BY <1>2, <1>12 DEF CoverInv, WorkInv, Begun
  <2>2. s.maps = mappings /\ cursor <= s.upto /\ (r \notin disturbed => s.mine = localEvents)
    BY <1>2, <2>1 DEF AtWork
  <2>3. maps = mappings'
    BY <1>1, <2>2 DEF saved
  <2> HIDE DEF s, t, maps
  <2>4. \A x : Newer(r, new, x)' <=> Newer(r, s, x)
    BY <1>5, <1>6 DEF Newer, users
  <2>5. \A row, x : Tells(row, x)' <=> Tells(row, x)
    BY <1>5 DEF Tells
  <2>6. ASSUME NEW x, KeptFor(t, x) \/ WrittenFor(t, x)
        PROVE  \E n \in MappingIds : Tells(mappings[n], x)'
    <3>1. CASE KeptFor(t, x)
      <4>1. PICK n \in MappingIds : Keeps(t, n) /\ Tells(mappings[n], x)
        BY <3>1 DEF KeptFor
      <4>2. mappings'[n] = mappings[n]
        BY <1>9, <4>1 DEF Tells
      <4> QED BY <2>5, <4>1, <4>2 DEF Tells
    <3>2. CASE WrittenFor(t, x)
      <4>1. PICK row \in Mapping : Writes(t, row) /\ Tells(row, x)
        BY <3>2 DEF WrittenFor
      <4>2. mappings'[m] = row
        BY <1>10, <4>1
      <4> QED BY <2>5, <4>1, <4>2 DEF Tells
    <3> QED BY <2>6, <3>1, <3>2
  <2>7. PendingHolds(r, new)'
    BY <1>5, <1>6, <2>1, <2>4 DEF AtWork, PendingHolds
  <2>8. LiveCovered(r, new)'
    <3> SUFFICES ASSUME NEW x \in RemoteIds, Live(remoteEvents[x].content),
                        Unsettled(s, x) => remoteEvents[x].etag <= cursor
                 PROVE  KeptFor(Nothing, x)' \/ Newer(r, new, x)'
      BY <1>5, <1>6 DEF LiveCovered, Unsettled, Live
    <3>1. KeptFor(t, x) \/ WrittenFor(t, x) \/ Newer(r, s, x)
      BY <2>1 DEF AtWork, LiveCovered, t
    <3> QED BY <2>4, <2>6, <3>1, NothingTouched DEF KeptFor, Keeps
  <2>9. CursorCovered'
    <3> SUFFICES ASSUME NEW x \in RemoteIds, Live(remoteEvents[x].content),
                        remoteEvents[x].etag <= cursor
                 PROVE  \E n \in MappingIds : Tells(mappings[n], x)'
      BY <1>5 DEF CursorCovered, Live
    <3>1. KeptFor(t, x) \/ WrittenFor(t, x) \/ Newer(r, s, x)
      BY <2>1 DEF AtWork, LiveCovered, t
    <3>2. ~ Newer(r, s, x)
      <4>1. /\ cursor \in Int /\ s.upto \in Int /\ remoteEvents[x].etag \in Int
        BY <1>2 DEF CalendarTyped, StoresTyped, SyncTyped, Remote
      <4> QED BY <2>2, <4>1 DEF Newer
    <3> QED BY <2>6, <3>1, <3>2
  <2>10. ASSUME missed = {}, NEW n \in MappingIds, NEW row, row = mappings'[n], Live(row)
         PROVE  \/ Tells(row, row.remote)' \/ Newer(r, new, row.remote)'
                \/ Unsettled(s, row.remote) /\ row = mappings[n]
    <3>1. CASE Writes(t, row)
      <4>1. row \in Mapping
        BY <1>4, <2>10 DEF RowsTyped, Maybe, Live
      <4>2. RowHolds(r, s, row)
        BY <2>1, <2>10, <3>1, <4>1 DEF AtWork, WrittenRowHolds, t
      <4> QED BY <2>4, <2>5, <4>2 DEF RowHolds
    <3>2. CASE Live(row) /\ Keeps(t, n) /\ row = mappings[n]
      <4>1. RowHolds(r, s, mappings[n]) \/ Unsettled(s, mappings[n].remote)
        BY <2>1, <2>10, <3>2 DEF AtWork, KeptRowsHold, t
      <4>2. RowHolds(r, s, row) \/ Unsettled(s, row.remote)
        BY <3>2, <4>1
      <4> QED BY <2>4, <2>5, <3>2, <4>2 DEF RowHolds
    <3> QED BY <1>11, <2>10, <3>1, <3>2
  <2>11. ASSUME missed = {}
         PROVE  KeptRowsHold(r, new, Nothing)' /\ WrittenRowHolds(r, new, Nothing)'
    <3>1. ASSUME NEW n \in MappingIds, NEW row, row = mappings'[n], Live(row)
          PROVE  RowHolds(r, new, row)' \/ Unsettled(new, row.remote)
      BY <1>6, <2>10, <2>11, <3>1 DEF RowHolds, Unsettled
    <3>2. KeptRowsHold(r, new, Nothing)'
      BY <3>1 DEF KeptRowsHold, RowHolds, Unsettled, Live, Tells, Newer
    <3> QED BY <3>2, NothingTouched DEF WrittenRowHolds, Writes, Nothing
  <2>12. ASSUME missed = {}
         PROVE  RowsCovered'
    <3>1. ASSUME NEW n \in MappingIds, NEW row, row = mappings'[n], Live(row)
          PROVE  Tells(row, row.remote)' \/ remoteEvents'[row.remote].etag > cursor'
      <4>1. row.remote \in RemoteIds
        BY <1>4, <3>1 DEF RowsTyped, Maybe, Live, Mapping
      <4>2. cursor \in Int /\ s.upto \in Int /\ remoteEvents[row.remote].etag \in Int
        BY <1>2, <4>1 DEF CalendarTyped, StoresTyped, SyncTyped, Remote
      <4>3. CASE Newer(r, new, row.remote)'
        <5>1. Newer(r, s, row.remote)
          BY <2>4, <4>3
        <5>2. remoteEvents[row.remote].etag > cursor
          BY <2>2, <4>2, <5>1 DEF Newer
        <5> QED BY <1>5, <5>2
      <4>4. CASE row = mappings[n]
        <5>1. Tells(row, row.remote) \/ remoteEvents[row.remote].etag > cursor
          BY <2>1, <2>12, <3>1, <4>4 DEF Covered, RowsCovered
        <5> QED BY <1>5, <2>5, <5>1
      <4> QED BY <2>10, <2>12, <3>1, <4>3, <4>4
    <3> QED BY <3>1 DEF RowsCovered, Tells, Live
  <2>13. missed' = missed /\ disturbed' = disturbed /\ cursor' = cursor /\ localEvents' = localEvents
    BY <1>5 DEF users
  <2>14. AtWork(r, new)'
    BY <1>6, <2>2, <2>3, <2>7, <2>8, <2>11, <2>13 DEF AtWork
  <2> QED BY <2>9, <2>12, <2>13, <2>14 DEF Covered
<1>13. PairedUp(mappings') /\ UnusedIsUnwritten'
  BY <1>1, <1>5 DEF CoverInv, PlainInv, UnusedIsUnwritten
<1> HIDE DEF s, t, maps
<1> QED BY <1>2, <1>6, <1>7, <1>12, <1>13, CoverGoesOn

-----------------------------------------------------------------------------
(* What was pulled is read: there is something of it.                       *)
LEMMA NotYetBegun ==
  ASSUME CalendarTyped, NEW r \in SyncRuns, syncs[r].pulled = NotRead
  PROVE  ~ Begun(syncs[r])
<1>1. ~ PulledTyped(NotRead)
  BY MarksAssumption DEF PulledTyped
<1> QED BY <1>1 DEF Begun, CalendarTyped, SyncsTyped, SyncTyped

LEMMA BegunTyped ==
  ASSUME CalendarTyped, NEW r \in SyncRuns, Begun(syncs[r])
  PROVE  DOMAIN syncs[r].pulled \subseteq RemoteIds /\ syncs[r].upto \in 0..tick
BY DEF Begun, CalendarTyped, SyncsTyped, SyncTyped, PulledTyped

LEMMA ConvergedUnchanged ==
  ASSUME UNCHANGED <<localEvents, remoteEvents, mappings>>, Converged
  PROVE  Converged'
BY DEF Converged, Paired

LEMMA PullChangesCovers ==
  ASSUME CalendarTyped, CoverInv, WorksUnderLease, UNCHANGED leaseVars,
         NEW r \in SyncRuns, PullChanges(r)
  PROVE  CoverInv'
<1> DEFINE s == syncs[r]
<1>1. PICK listed \in {Since(cursor), {x \in RemoteIds : Live(remoteEvents[x].content)}} :
        /\ Progress(r, [s EXCEPT !.upto = tick, !.pulled = [x \in listed |-> remoteEvents[x]]])
        /\ missed' = missed \cup (Since(cursor) \ listed)
  BY DEF PullChanges
<1> DEFINE pulled == [x \in listed |-> remoteEvents[x]]
<1>2. PICK t : t = [s EXCEPT !.upto = tick, !.pulled = pulled]
  OBVIOUS
<1>3. UNCHANGED <<localEvents, remoteEvents, tick, mappings, cursor, pullOnly, edits, disturbed>>
      /\ syncRuns[r].phase = "working" /\ s.pulled = NotRead
  BY DEF PullChanges
<1>4. StoresTyped /\ tick \in Nat /\ cursor \in 0..tick /\ UnusedIsUnwritten /\ PairedUp(mappings)
      /\ DOMAIN s = DOMAIN NewSync /\ (s.done => s.todo = Nothing)
  BY DEF CalendarTyped, StoresTyped, SyncsTyped, SyncTyped, CoverInv, PlainInv
<1>5. s.mine = NotRead /\ s.maps = NotRead /\ s.todo = Nothing
  BY <1>3, NotYetBegun DEF Begun
<1>6. /\ t.upto = tick /\ t.pulled = pulled /\ t.mine = NotRead /\ t.maps = NotRead
      /\ t.todo = Nothing /\ t.done = s.done
  <2> HIDE DEF pulled, s
  <2> QED BY <1>2, <1>4, <1>5 DEF NewSync
<1>7. Progress(r, t)
  <2> HIDE DEF s
  <2> QED BY <1>1, <1>2
<1>8. /\ listed \subseteq RemoteIds
      /\ \A x \in Since(cursor) : Live(remoteEvents[x].content) => x \in listed
      /\ \A x \in listed : remoteEvents[x].content # Unused
  <2>1. \A x \in RemoteIds : remoteEvents[x].etag > cursor => remoteEvents[x].content # Unused
    BY <1>4 DEF UnusedIsUnwritten
  <2> QED BY <1>1, <2>1 DEF Since, Live
<1> HIDE DEF s
<1>9. \A x : Unsettled(t, x) <=> x \in listed
  BY <1>6 DEF Unsettled
<1>10. ASSUME lapsed = {}
       PROVE  AtWork(r, t)' /\ Covered' /\ (t.done /\ Quiet(r)' => Converged')
  <2>1. WorkInv
    BY <1>10 DEF CoverInv
  <2>2. missed' = {} => missed = {} /\ Since(cursor) \subseteq listed
    BY <1>1
  <2>3. \A row, x : Tells(row, x)' <=> Tells(row, x)
    BY <1>3 DEF Tells
  <2>4. Covered'
    BY <1>3, <2>1, <2>2 DEF WorkInv, Covered, CursorCovered, RowsCovered, Tells
  <2>5. PendingHolds(r, t)'
    BY <1>3, <1>6, <1>8 DEF PendingHolds
  <2>6. LiveCovered(r, t)'
    <3> SUFFICES ASSUME NEW x \in RemoteIds, Live(remoteEvents[x].content),
                        x \in listed => remoteEvents[x].etag <= cursor
                 PROVE  KeptFor(Nothing, x)'
      BY <1>3, <1>6, <1>9 DEF LiveCovered, Live, Unsettled
    <3>1. remoteEvents[x].etag <= cursor
      <4>1. remoteEvents[x].etag \in Int /\ cursor \in Int
        BY <1>4 DEF StoresTyped, Remote
      <4> QED BY <1>8, <4>1 DEF Since
    <3>2. PICK m \in MappingIds : Tells(mappings[m], x)
      BY <2>1, <3>1 DEF WorkInv, Covered, CursorCovered
    <3>3. KeptFor(Nothing, x)
      BY <3>2, NothingTouched DEF KeptFor
    <3> QED BY <1>3, <2>3, <3>3 DEF KeptFor, Tells, Keeps
  <2>7. ASSUME missed' = {}
        PROVE  KeptRowsHold(r, t, Nothing)' /\ WrittenRowHolds(r, t, Nothing)'
    <3>1. ASSUME NEW m \in MappingIds, Live(mappings[m])
          PROVE  Tells(mappings[m], mappings[m].remote) \/ Unsettled(t, mappings[m].remote)
      <4>1. mappings[m].remote \in RemoteIds
        BY <1>4, <3>1 DEF StoresTyped, RowsTyped, Maybe, Live, Mapping
      <4> QED BY <1>9, <2>1, <2>2, <2>7, <3>1, <4>1 DEF WorkInv, Covered, RowsCovered, Since
    <3>2. KeptRowsHold(r, t, Nothing)'
      BY <1>3, <3>1 DEF KeptRowsHold, RowHolds, Tells, Live, Unsettled
    <3> QED BY <3>2 DEF WrittenRowHolds, Writes, Nothing
  <2>8. AtWork(r, t)'
    BY <1>3, <1>4, <1>6, <2>5, <2>6, <2>7 DEF AtWork
  <2>9. t.done /\ Quiet(r)' => Converged'
    BY <1>3, <1>6, <2>1, <2>2, ConvergedUnchanged DEF WorkInv, Quiet, s
  <2> QED BY <2>4, <2>8, <2>9
<1>11. PairedUp(mappings') /\ UnusedIsUnwritten'
  BY <1>3, <1>4 DEF UnusedIsUnwritten
<1> QED BY <1>3, <1>4, <1>6, <1>7, <1>10, <1>11, CoverGoesOn

LEMMA ReadsCover ==
  ASSUME CalendarTyped, CoverInv, WorksUnderLease, UNCHANGED leaseVars,
         NEW r \in SyncRuns, ReadLocalEvents(r) \/ ReadMappings(r)
  PROVE  CoverInv'
<1> DEFINE s == syncs[r]
<1>1. PICK t : Progress(r, t) /\ t \in {[s EXCEPT !.mine = localEvents], [s EXCEPT !.maps = mappings]}
  BY DEF ReadLocalEvents, ReadMappings
<1>2. UNCHANGED <<localEvents, remoteEvents, tick, mappings, cursor, unseen, users>>
      /\ syncRuns[r].phase = "working" /\ s.pulled # NotRead
  BY DEF ReadLocalEvents, ReadMappings
<1>3. DOMAIN s = DOMAIN NewSync /\ (s.done => s.todo = Nothing)
      /\ UnusedIsUnwritten /\ PairedUp(mappings)
  BY DEF CalendarTyped, SyncsTyped, SyncTyped, CoverInv, PlainInv
<1>4. /\ t.upto = s.upto /\ t.pulled = s.pulled /\ t.todo = s.todo /\ t.done = s.done
      /\ \/ t.mine = localEvents /\ t.maps = s.maps
         \/ t.mine = s.mine /\ t.maps = mappings
  <2> HIDE DEF s
  <2> QED BY <1>1, <1>3 DEF NewSync
<1> HIDE DEF s
<1>5. ASSUME lapsed = {}
      PROVE  AtWork(r, t)' /\ Covered' /\ (t.done /\ Quiet(r)' => Converged')
  <2>1. AtWork(r, s) /\ Covered /\ (s.done /\ Quiet(r) => Converged)
    BY <1>2, <1>5 DEF CoverInv, WorkInv, Begun, s
  <2>2. AtWork(r, t)' <=> AtWork(r, t)
    BY <1>2 DEF AtWork, PendingHolds, LiveCovered, KeptRowsHold, WrittenRowHolds, RowHolds, Newer,
           Unsettled, KeptFor, WrittenFor, Tells, Writes, Keeps, users
  <2>3. PendingHolds(r, t) /\ LiveCovered(r, t)
        /\ (missed = {} => KeptRowsHold(r, t, t.todo) /\ WrittenRowHolds(r, t, t.todo))
    BY <1>4, <2>1 DEF AtWork, PendingHolds, LiveCovered, KeptRowsHold, WrittenRowHolds, RowHolds,
           Newer, Unsettled
  <2>4. AtWork(r, t)
    BY <1>4, <2>1, <2>3 DEF AtWork
  <2>5. Covered'
    BY <1>2, <2>1, CoveredUnchanged DEF users
  <2>6. t.done /\ Quiet(r)' => Converged'
    BY <1>2, <1>4, <2>1, ConvergedUnchanged DEF Quiet, users
  <2> QED BY <2>2, <2>4, <2>5, <2>6
<1>6. PairedUp(mappings') /\ UnusedIsUnwritten'
  BY <1>2, <1>3 DEF UnusedIsUnwritten
<1> QED BY <1>1, <1>2, <1>3, <1>4, <1>5, <1>6, CoverGoesOn

(* Everything is settled: the rows tell of every event, and every event     *)
(* here has a row that tells its content.                                   *)
LEMMA SettledConverges ==
  ASSUME NEW r, Context(r), lapsed = {}, Settled(r), Quiet(r)
  PROVE  Converged
<1> DEFINE s == syncs[r]
<1>1. /\ AtWork(r, s) /\ s.todo = Nothing /\ s.maps = mappings /\ s.mine = localEvents
      /\ DOMAIN s.pulled = {} /\ ToPush(s) = {} /\ ToRemove(s) = {}
  BY ReadyAtWork DEF Settled, AllPulled, Quiet
<1>2. StoresTyped /\ PairedUp(mappings)
  BY DEF Context, CalendarTyped, CoverInv, PlainInv
<1>3. \A x : ~ Newer(r, s, x) /\ ~ Unsettled(s, x)
  BY <1>1 DEF Quiet, Newer, Unsettled
<1>4. ASSUME NEW m \in MappingIds, Live(mappings[m])
      PROVE  /\ mappings[m].local \in LocalIds /\ mappings[m].remote \in RemoteIds
             /\ Tells(mappings[m], mappings[m].remote) /\ Live(localEvents[mappings[m].local])
  <2>1. mappings[m] \in Mapping
    BY <1>2, <1>4 DEF StoresTyped, RowsTyped, Maybe, Live
  <2>2. RowHolds(r, s, mappings[m])
    BY <1>1, <1>3, <1>4, NothingTouched DEF AtWork, KeptRowsHold, Quiet
  <2>3. Live(localEvents[mappings[m].local])
    BY <1>1, <1>4 DEF ToRemove
  <2> QED BY <1>3, <2>1, <2>2, <2>3 DEF RowHolds, Mapping
<1>5. ASSUME NEW l \in LocalIds, Live(localEvents[l])
      PROVE  \E m \in MappingIds : /\ Live(mappings[m]) /\ mappings[m].local = l
                                   /\ mappings[m].hash = localEvents[l]
  BY <1>1, <1>5 DEF ToPush, MappedBy
<1>6. ASSUME NEW l \in LocalIds, Live(localEvents[l])
      PROVE  \E x \in RemoteIds : Paired(l, x)
  BY <1>4, <1>5, <1>6 DEF Paired, Tells
<1>7. ASSUME NEW x \in RemoteIds, Live(remoteEvents[x].content)
      PROVE  \E l \in LocalIds : Paired(l, x)
  <2>1. KeptFor(Nothing, x)
    BY <1>1, <1>3, <1>7, NothingTouched DEF AtWork, LiveCovered, WrittenFor
  <2>2. PICK m \in MappingIds : Tells(mappings[m], x)
    BY <2>1 DEF KeptFor
  <2>3. mappings[m].local \in LocalIds /\ Live(localEvents[mappings[m].local])
    BY <1>4, <2>2 DEF Tells
  <2>4. PICK n \in MappingIds : /\ Live(mappings[n]) /\ mappings[n].local = mappings[m].local
                                /\ mappings[n].hash = localEvents[mappings[m].local]
    BY <1>5, <2>3
  <2>5. n = m
    BY <1>2, <2>2, <2>4 DEF PairedUp, Tells
  <2> QED BY <2>2, <2>3, <2>4, <2>5 DEF Paired, Tells
<1> QED BY <1>6, <1>7 DEF Converged

LEMMA SaveCursorCovers ==
  ASSUME NEW r, Context(r), SaveCursor(r)
  PROVE  CoverInv'
<1> DEFINE s == syncs[r]
<1>1. PICK t : t = [s EXCEPT !.done = TRUE]
  OBVIOUS
<1>2. /\ WorkTyped(s, tick) /\ s.todo = Nothing /\ DOMAIN s.pulled = {}
      /\ lapsed = {} => AtWork(r, s) /\ s.maps = mappings /\ (r \notin disturbed => s.mine = localEvents)
  BY ReadyAtWork DEF SaveCursor, Settled, AllPulled
<1>3. /\ t.upto = s.upto /\ t.pulled = s.pulled /\ t.todo = s.todo /\ t.mine = s.mine
      /\ t.maps = s.maps
  <2> HIDE DEF s
  <2> QED BY <1>1, <1>2 DEF WorkTyped, NewSync
<1>4. /\ cursor' = s.upto /\ Progress(r, t)
      /\ UNCHANGED <<localEvents, remoteEvents, tick, mappings, unseen, users>>
  BY <1>1 DEF SaveCursor
<1>5. StoresTyped /\ PairedUp(mappings) /\ UnusedIsUnwritten
  BY DEF Context, CalendarTyped, CoverInv, PlainInv
<1>6. ASSUME lapsed = {}
      PROVE  AtWork(r, t)' /\ Covered' /\ (Quiet(r)' => Converged')
  <2>1. AtWork(r, s) /\ s.maps = mappings /\ (r \notin disturbed => s.mine = localEvents)
    BY <1>2, <1>6
  <2>0. Quiet(r)' => Converged'
    <3>1. Quiet(r)' => Quiet(r)
      BY <1>4 DEF Quiet, users
    <3>2. Quiet(r) => Converged
      BY <1>6, SettledConverges DEF SaveCursor
    <3> QED BY <1>4, <3>1, <3>2, ConvergedUnchanged
  <2> HIDE DEF s
  <2>2. \A x : ~ Unsettled(s, x) /\ ~ Unsettled(t, x)
    BY <1>2, <1>3 DEF Unsettled
  <2>3. /\ \A row, x : Tells(row, x)' <=> Tells(row, x)
        /\ \A x : Newer(r, t, x)' <=> Newer(r, s, x)
        /\ mappings' = mappings /\ missed' = missed /\ disturbed' = disturbed
        /\ localEvents' = localEvents /\ remoteEvents' = remoteEvents
    BY <1>3, <1>4 DEF Tells, Newer, users
  <2>4. \A x \in RemoteIds : Live(remoteEvents[x].content) => KeptFor(Nothing, x) \/ Newer(r, s, x)
    BY <1>2, <2>1, <2>2, NothingTouched DEF AtWork, LiveCovered, WrittenFor
  <2>5. missed = {} => \A m \in MappingIds : Live(mappings[m]) => RowHolds(r, s, mappings[m])
    BY <1>2, <2>1, <2>2, NothingTouched DEF AtWork, KeptRowsHold
  <2>6. \A x : KeptFor(Nothing, x)' <=> KeptFor(Nothing, x)
    BY <2>3 DEF KeptFor, Tells, Keeps
  <2>7. PendingHolds(r, t)' /\ LiveCovered(r, t)'
    BY <1>2, <1>3, <2>3, <2>4, <2>6 DEF PendingHolds, LiveCovered, Live
  <2>8. missed = {} => KeptRowsHold(r, t, Nothing)' /\ WrittenRowHolds(r, t, Nothing)'
    <3>1. missed = {} => KeptRowsHold(r, t, Nothing)'
      BY <1>3, <2>3, <2>5 DEF KeptRowsHold, RowHolds, Live, Tells, Newer
    <3> QED BY <3>1 DEF WrittenRowHolds, Writes, Nothing
  <2>9. s.upto \in 0..tick /\ cursor' = s.upto /\ s.upto = t.upto
    BY <1>2, <1>3, <1>4 DEF WorkTyped
  <2>10. AtWork(r, t)'
    BY <1>2, <1>3, <2>1, <2>3, <2>7, <2>8, <2>9 DEF AtWork
  <2>11. Covered'
    <3>1. \A x \in RemoteIds : Newer(r, s, x) => remoteEvents[x].etag > s.upto
      BY DEF Newer
    <3>2. CursorCovered'
      <4> SUFFICES ASSUME NEW x \in RemoteIds, Live(remoteEvents[x].content),
                          remoteEvents[x].etag <= s.upto
                   PROVE  \E m \in MappingIds : Tells(mappings[m], x)'
        BY <2>3, <2>9 DEF CursorCovered, Live
      <4>1. remoteEvents[x].etag \in Int /\ s.upto \in Int
        BY <1>5, <2>9 DEF StoresTyped, Remote
      <4>2. KeptFor(Nothing, x)
        BY <2>4, <3>1, <4>1
      <4> QED BY <2>3, <4>2 DEF KeptFor, Tells
    <3>3. ASSUME missed = {}
          PROVE  RowsCovered'
      <4> SUFFICES ASSUME NEW m \in MappingIds, Live(mappings[m])
                   PROVE  \/ Tells(mappings[m], mappings[m].remote)
                          \/ remoteEvents[mappings[m].remote].etag > s.upto
        BY <2>3, <2>9 DEF RowsCovered, Live, Tells
      <4> QED BY <2>5, <3>3 DEF RowHolds, Newer
    <3> QED BY <2>3, <3>2, <3>3 DEF Covered
  <2> QED BY <2>0, <2>10, <2>11
<1>7. PairedUp(mappings') /\ UnusedIsUnwritten'
  BY <1>4, <1>5 DEF UnusedIsUnwritten
<1>8. t.todo = Nothing
  BY <1>2, <1>3
<1> QED BY <1>4, <1>6, <1>7, <1>8, CoverGoesOn DEF Context, Ready

-----------------------------------------------------------------------------
LEMMA RunStepCovers ==
  ASSUME CalendarTyped, CoverInv, WorksUnderLease, UNCHANGED leaseVars,
         NEW r \in SyncRuns, SyncStep(r)
  PROVE  CoverInv'
<1>0. Ready(r) => Context(r)
  BY DEF Context
<1>1. CASE PullChanges(r)
  BY <1>1, PullChangesCovers
<1>2. CASE ReadLocalEvents(r) \/ ReadMappings(r)
  BY <1>2, ReadsCover
<1>3. ASSUME NEW x \in RemoteIds, PullDeletion(r, x)
      PROVE  CoverInv'
  <2>1. Context(r)
    BY <1>0, <1>3 DEF PullDeletion, Settles
  <2> QED BY <1>3, <2>1, PullDeletionCovers
<1>4. ASSUME NEW x \in RemoteIds, PullNew(r, x)
      PROVE  CoverInv'
  <2>1. Context(r)
    BY <1>0, <1>4 DEF PullNew, Settles
  <2> QED BY <1>4, <2>1, PullNewCovers
<1>5. ASSUME NEW x \in RemoteIds, NEW resolution, PullChange(r, x, resolution)
      PROVE  CoverInv'
  <2>1. Context(r)
    BY <1>0, <1>5 DEF PullChange, Settles
  <2> QED BY <1>5, <2>1, PullChangeCovers
<1>6. ASSUME NEW l \in LocalIds, PushEvent(r, l)
      PROVE  CoverInv'
  <2>1. Context(r)
    BY <1>0, <1>6 DEF PushEvent, AllPulled
  <2> QED BY <1>6, <2>1, PushEventCovers
<1>7. ASSUME NEW m \in MappingIds, RemoveThere(r, m)
      PROVE  CoverInv'
  <2>1. Context(r)
    BY <1>0, <1>7 DEF RemoveThere, AllPulled
  <2> QED BY <1>7, <2>1, RemoveThereCovers
<1>8. CASE SaveMapping(r)
  BY <1>8, SaveMappingCovers
<1>9. CASE SaveCursor(r)
  <2>1. Context(r)
    BY <1>0, <1>9 DEF SaveCursor, Settled, AllPulled
  <2> QED BY <1>9, <2>1, SaveCursorCovers
<1> QED BY <1>1, <1>2, <1>3, <1>4, <1>5, <1>6, <1>7, <1>8, <1>9 DEF SyncStep

(* Edits by users.  A run that has begun is disturbed, and what was edited  *)
(* is newer than anything the run has asked for.                            *)
LEMMA AtWorkThroughEdit ==
  ASSUME RowsTyped(mappings), NEW r, NEW s, AtWork(r, s), DOMAIN s.pulled \subseteq RemoteIds,
         r \in disturbed', UNCHANGED <<mappings, cursor, missed>>,
         \A z \in RemoteIds : remoteEvents'[z] = remoteEvents[z] \/ remoteEvents'[z].etag > s.upto
  PROVE  AtWork(r, s)'
<1>1. \A z \in RemoteIds :
        \/ Newer(r, s, z)'
        \/ /\ remoteEvents'[z] = remoteEvents[z]
           /\ ~ Newer(r, s, z)
           /\ \A row : Tells(row, z)' <=> Tells(row, z)
  BY DEF Newer, Tells
<1>2. \A row : Writes(s.todo, row)' <=> Writes(s.todo, row)
  BY DEF Writes
<1>3. PendingHolds(r, s)'
  <2> SUFFICES ASSUME NEW z \in DOMAIN s.pulled
               PROVE  /\ s.pulled[z].content # Unused
                      /\ s.pulled[z] = remoteEvents'[z] \/ Newer(r, s, z)'
    BY DEF PendingHolds, Newer
  <2>1. s.pulled[z].content # Unused /\ (s.pulled[z] = remoteEvents[z] \/ Newer(r, s, z))
    BY DEF AtWork, PendingHolds
  <2> QED BY <1>1, <2>1
<1>4. LiveCovered(r, s)'
  <2> SUFFICES ASSUME NEW z \in RemoteIds, Live(remoteEvents'[z].content),
                      Unsettled(s, z) => remoteEvents'[z].etag <= cursor, ~ Newer(r, s, z)'
               PROVE  KeptFor(s.todo, z)' \/ WrittenFor(s.todo, z)'
    BY DEF LiveCovered, Live, Unsettled
  <2>1. KeptFor(s.todo, z) \/ WrittenFor(s.todo, z)
    BY <1>1 DEF AtWork, LiveCovered
  <2>2. \A row : Tells(row, z)' <=> Tells(row, z)
    BY <1>1
  <2>3. KeptFor(s.todo, z) => KeptFor(s.todo, z)'
    BY <2>2 DEF KeptFor, Keeps
  <2>4. WrittenFor(s.todo, z) => WrittenFor(s.todo, z)'
    BY <1>2, <2>2 DEF WrittenFor
  <2> QED BY <2>1, <2>3, <2>4
<1>5. \A row \in Mapping : RowHolds(r, s, row) => RowHolds(r, s, row)'
  BY <1>1 DEF RowHolds, Mapping
<1>6. ASSUME missed = {}
      PROVE  KeptRowsHold(r, s, s.todo)' /\ WrittenRowHolds(r, s, s.todo)'
  <2>1. KeptRowsHold(r, s, s.todo) /\ WrittenRowHolds(r, s, s.todo)
    BY <1>6 DEF AtWork
  <2>2. WrittenRowHolds(r, s, s.todo)'
    BY <1>2, <1>5, <2>1 DEF WrittenRowHolds
  <2>3. ASSUME NEW m \in MappingIds, Live(mappings[m]), Keeps(s.todo, m)
        PROVE  RowHolds(r, s, mappings[m])' \/ Unsettled(s, mappings[m].remote)
    <3>1. PICK row : row = mappings[m]
      OBVIOUS
    <3>2. row \in Mapping
      BY <2>3, <3>1 DEF RowsTyped, Maybe, Live
    <3>3. RowHolds(r, s, row)' \/ Unsettled(s, row.remote)
      BY <1>5, <2>1, <2>3, <3>1, <3>2 DEF KeptRowsHold
    <3>4. mappings'[m] = row
      BY <3>1
    <3> QED BY <3>1, <3>3, <3>4 DEF RowHolds, Tells, Newer
  <2> QED BY <2>2, <2>3 DEF KeptRowsHold, Unsettled, Keeps, Live
<1> QED BY <1>3, <1>4, <1>6 DEF AtWork

LEMMA EditCovers ==
  ASSUME CalendarTyped, CoverInv, UNCHANGED leaseVars, EditStep
  PROVE  CoverInv'
<1>0. StoresTyped /\ PlainInv
  BY DEF CalendarTyped, CoverInv
<1>1. UNCHANGED <<mappings, cursor, pullOnly, syncs, missed, syncRuns, lapsed>>
  BY DEF EditStep, EditHere, EditThere, leaseVars
<1>2. \A r \in SyncRuns : Begun(syncs[r]) \/ syncs[r].done => r \in disturbed'
  <2>1. disturbed' = disturbed \cup {r \in SyncRuns : syncRuns[r].phase = "working"}
    BY DEF EditStep, EditHere, EditThere, Disturb
  <2> QED BY <1>0, <2>1, NotBegun DEF PlainInv
<1>3. /\ (Covered => Covered') /\ UnusedIsUnwritten'
      /\ \A z \in RemoteIds :
           remoteEvents'[z] = remoteEvents[z] \/ remoteEvents'[z].etag > tick
  <2>1. ASSUME NEW l \in LocalIds, NEW c \in Contents \cup {Gone}, EditHere(l, c)
        PROVE  UNCHANGED remoteEvents
    BY <2>1 DEF EditHere
  <2>2. CASE UNCHANGED remoteEvents
    BY <1>0, <1>1, <2>2, CoveredUnchanged DEF UnusedIsUnwritten, PlainInv
  <2>3. ASSUME NEW x \in RemoteIds, NEW c \in Contents \cup {Gone}, EditThere(x, c)
        PROVE  \E y \in RemoteIds : \E d : /\ d # Unused /\ tick' = tick + 1
                 /\ remoteEvents' = [remoteEvents EXCEPT ![y] = [content |-> d, etag |-> tick + 1]]
    BY <2>3, CalendarSyncAssumption DEF EditThere
  <2>4. ASSUME NEW y \in RemoteIds, NEW d, d # Unused, tick' = tick + 1,
               remoteEvents' = [remoteEvents EXCEPT ![y] = [content |-> d, etag |-> tick + 1]]
        PROVE  /\ (Covered => Covered') /\ UnusedIsUnwritten'
               /\ \A z \in RemoteIds :
                    remoteEvents'[z] = remoteEvents[z] \/ remoteEvents'[z].etag > tick
    <3>1. Covered => Covered'
      BY <1>0, <1>1, <2>4, CoveredWhenWritten
    <3>2. UnusedIsUnwritten'
      BY <1>0, <2>4, UnwrittenAfter DEF PlainInv
    <3> QED BY <1>0, <2>4, <3>1, <3>2 DEF StoresTyped
  <2> QED BY <2>1, <2>2, <2>3, <2>4 DEF EditStep
<1>4. PlainInv'
  BY <1>0, <1>1, <1>3 DEF PlainInv, PairedUp, Live
<1>5. ASSUME lapsed = {}
      PROVE  WorkInv'
  <2>1. WorkInv
    BY <1>5 DEF CoverInv
  <2>2. \A r \in SyncRuns : syncs[r].done => ~ Quiet(r)'
    BY <1>2 DEF Quiet
  <2>3. ASSUME NEW r \in SyncRuns, Begun(syncs[r])
        PROVE  AtWork(r, syncs[r])'
    <3>1. PICK s : s = syncs[r]
      OBVIOUS
    <3>2. AtWork(r, s) /\ DOMAIN s.pulled \subseteq RemoteIds /\ s.upto \in 0..tick
      BY <2>1, <2>3, <3>1, BegunTyped DEF WorkInv
    <3>3. \A z \in RemoteIds : remoteEvents'[z] = remoteEvents[z] \/ remoteEvents'[z].etag > s.upto
      <4> SUFFICES ASSUME NEW z \in RemoteIds, remoteEvents'[z].etag > tick
                   PROVE  remoteEvents'[z].etag > s.upto
        BY <1>3
      <4>1. remoteEvents' \in [RemoteIds -> Remote] /\ tick \in Nat
        BY EditTyped, <1>0 DEF CalendarTyped, StoresTyped
      <4> QED BY <3>2, <4>1 DEF Remote
    <3>4. AtWork(r, s)'
      BY <1>0, <1>1, <1>2, <2>3, <3>2, <3>3, AtWorkThroughEdit DEF StoresTyped
    <3>5. syncs'[r] = s
      BY <1>1, <3>1
    <3> QED BY <3>4, <3>5 DEF AtWork, PendingHolds, LiveCovered, KeptRowsHold, WrittenRowHolds,
             RowHolds, Newer, Unsettled
  <2>4. \A r \in SyncRuns : Begun(syncs[r])' => AtWork(r, syncs[r])'
    BY <1>1, <2>3 DEF Begun
  <2> QED BY <1>1, <1>3, <2>1, <2>2, <2>4 DEF WorkInv
<1> QED BY <1>1, <1>4, <1>5 DEF CoverInv

(* The end of a run, and a crash: what it had read goes with it.            *)
LEMMA ForgetCovers ==
  ASSUME CalendarTyped, CoverInv, NEW r \in SyncRuns, Forget(r), lapsed' = lapsed,
         \A q \in SyncRuns : q # r => syncRuns'[q] = syncRuns[q]
  PROVE  CoverInv'
<1>1. /\ syncs'[r] = NewSync
      /\ \A q \in SyncRuns : q # r => syncs'[q] = syncs[q]
      /\ \A q \in SyncRuns : q # r => (q \in disturbed' <=> q \in disturbed)
      /\ UNCHANGED <<localEvents, remoteEvents, tick, mappings, cursor, pullOnly, edits,
                     unseen, missed>>
  BY DEF Forget, CalendarTyped, SyncsTyped
<1>2. PlainInv'
  BY <1>1, NotBegun DEF CoverInv, PlainInv, UnusedIsUnwritten, PairedUp, Live
<1>3. ASSUME lapsed = {}
      PROVE  WorkInv'
  <2>1. WorkInv
    BY <1>3 DEF CoverInv
  <2>2. ASSUME NEW q \in SyncRuns, Begun(syncs[q])'
        PROVE  AtWork(q, syncs[q])'
    <3>1. q # r /\ syncs'[q] = syncs[q] /\ Begun(syncs[q])
      BY <1>1, <2>2, NotBegun DEF Begun
    <3>2. PICK s : s = syncs[q]
      OBVIOUS
    <3>3. AtWork(q, s)
      BY <2>1, <3>1, <3>2 DEF WorkInv
    <3>4. AtWork(q, s)'
      BY <1>1, <3>1, <3>3 DEF AtWork, PendingHolds, LiveCovered, KeptRowsHold, WrittenRowHolds,
             RowHolds, Newer, Unsettled, KeptFor, WrittenFor, Tells, Writes, Keeps
    <3>5. syncs'[q] = s
      BY <3>1, <3>2
    <3> QED BY <3>4, <3>5 DEF AtWork, PendingHolds, LiveCovered, KeptRowsHold, WrittenRowHolds,
             RowHolds, Newer, Unsettled
  <2>3. Covered'
    BY <1>1, <2>1, CoveredUnchanged DEF WorkInv
  <2>4. \A q \in SyncRuns : syncs'[q].done /\ Quiet(q)' => Converged'
    BY <1>1, <2>1, NotBegun, ConvergedUnchanged DEF WorkInv, Quiet
  <2> QED BY <2>2, <2>3, <2>4 DEF WorkInv
<1> QED BY <1>2, <1>3 DEF CoverInv

(* Steps of the lease and of the user's connection                          *)
LEMMA LeaseStepCovers ==
  ASSUME CoverInv, LeaseTypeOK, UNCHANGED calendarVars,
         (\E r \in SyncRuns : LeaseStep(r)) \/ ExpireLease \/ UserStep
  PROVE  CoverInv'
<1>1. lapsed \subseteq lapsed'
  BY DEF LeaseStep, CheckConnection, AcquireLease, ExpireLease, Heartbeat, HeartbeatFails,
         Conclude, ReleaseLease, UserStep, ChangeStatus, RemoveConnection, AuthorizeAgain
<1>2. \A r \in SyncRuns : syncRuns'[r].phase # "working" => syncRuns[r].phase # "working"
  <2>1. syncRuns \in [SyncRuns -> SyncRun]
    BY DEF LeaseTypeOK
  <2>2. CASE ExpireLease \/ UserStep
    BY <2>2 DEF ExpireLease, UserStep, ChangeStatus, RemoveConnection, AuthorizeAgain
  <2>3. ASSUME NEW q \in SyncRuns, LeaseStep(q)
        PROVE  \A r \in SyncRuns : syncRuns'[r].phase # "working" => syncRuns[r].phase # "working"
    <3>1. CASE CheckConnection(q) \/ AcquireLease(q)
      BY <2>1, <3>1 DEF CheckConnection, AcquireLease, SyncRun
    <3>2. CASE Heartbeat(q) \/ HeartbeatFails(q)
      BY <2>1, <3>2 DEF Heartbeat, HeartbeatFails, SyncRun
    <3>3. CASE Conclude(q) \/ ReleaseLease(q)
      BY <2>1, <3>3 DEF Conclude, ReleaseLease, SyncRun
    <3> QED BY <2>3, <3>1, <3>2, <3>3 DEF LeaseStep
  <2> QED BY <2>2, <2>3
<1>3. UNCHANGED <<localEvents, remoteEvents, tick, mappings, cursor, pullOnly, syncs, edits,
                  unseen, missed, disturbed>>
  BY DEF calendarVars
<1>4. PlainInv'
  BY <1>2, <1>3 DEF CoverInv, PlainInv, PairedUp, UnusedIsUnwritten, Live
<1>5. WorkInv => WorkInv'
  <2> SUFFICES ASSUME WorkInv PROVE WorkInv'
    OBVIOUS
  <2>1. \A r, s : AtWork(r, s)' <=> AtWork(r, s)
    BY <1>3 DEF AtWork, PendingHolds, LiveCovered, KeptRowsHold, WrittenRowHolds,
           RowHolds, Newer, Unsettled, KeptFor, WrittenFor, Tells, Writes, Keeps
  <2>2. ASSUME NEW r \in SyncRuns, Begun(syncs[r])'
        PROVE  AtWork(r, syncs[r])'
    <3>1. PICK s : s = syncs[r]
      OBVIOUS
    <3>2. AtWork(r, s)'
      BY <1>3, <2>1, <2>2, <3>1 DEF WorkInv, Begun
    <3>3. syncs'[r] = s
      BY <1>3, <3>1
    <3> QED BY <3>2, <3>3 DEF AtWork, PendingHolds, LiveCovered, KeptRowsHold, WrittenRowHolds,
             RowHolds, Newer, Unsettled
  <2>3. Covered' /\ (Converged => Converged')
    BY <1>3, CoveredUnchanged, ConvergedUnchanged DEF WorkInv
  <2> QED BY <1>3, <2>2, <2>3 DEF WorkInv, Quiet
<1> QED BY <1>1, <1>4, <1>5 DEF CoverInv

LEMMA CoverInitially == SyncInit => CoverInv
<1> SUFFICES ASSUME SyncInit PROVE CoverInv
  OBVIOUS
<1>1. CalendarTyped
  BY CalendarInitTyped
<1>2. \A r \in SyncRuns : syncs[r] = NewSync
  BY DEF SyncInit
<1>3. PairedUp(mappings) /\ UnusedIsUnwritten /\ CursorCovered /\ RowsCovered
  <2>1. CASE /\ remoteEvents = [x \in RemoteIds |-> [content |-> Unused, etag |-> 0]]
             /\ mappings = [m \in MappingIds |-> Unused]
    BY <2>1 DEF PairedUp, UnusedIsUnwritten, CursorCovered, RowsCovered, Live
  <2>2. ASSUME NEW l \in LocalIds, NEW x \in RemoteIds, NEW m \in MappingIds, NEW c \in Contents,
               remoteEvents = [y \in RemoteIds |-> IF y = x THEN [content |-> c, etag |-> 1]
                                               ELSE [content |-> Unused, etag |-> 0]],
               mappings = [n \in MappingIds |->
                             IF n = m THEN [local |-> l, remote |-> x, etag |-> 1, hash |-> c]
                             ELSE Unused]
        PROVE  PairedUp(mappings) /\ UnusedIsUnwritten /\ CursorCovered /\ RowsCovered
    <3>1. c # Unused /\ c # Gone
      BY CalendarSyncAssumption
    <3>2. PairedUp(mappings)
      BY <2>2 DEF PairedUp, Live
    <3>3. UnusedIsUnwritten
      BY <2>2, <3>1 DEF UnusedIsUnwritten
    <3>4. mappings[m] \in Mapping /\ remoteEvents[x] = [content |-> c, etag |-> 1]
          /\ mappings[m] = [local |-> l, remote |-> x, etag |-> 1, hash |-> c]
      BY <2>2, CalendarSyncAssumption DEF Mapping
    <3>5. Tells(mappings[m], x)
      BY <3>4, MarksAssumption DEF Tells, Live
    <3>6. CursorCovered
      <4> SUFFICES ASSUME NEW y \in RemoteIds, Live(remoteEvents[y].content)
                   PROVE  \E n \in MappingIds : Tells(mappings[n], y)
        BY DEF CursorCovered
      <4>1. y = x
        BY <2>2 DEF Live
      <4> QED BY <3>5, <4>1
    <3>7. RowsCovered
      <4> SUFFICES ASSUME NEW n \in MappingIds, Live(mappings[n])
                   PROVE  Tells(mappings[n], mappings[n].remote)
        BY DEF RowsCovered
      <4>1. n = m
        BY <2>2 DEF Live
      <4> QED BY <3>4, <3>5, <4>1
    <3> QED BY <3>2, <3>3, <3>6, <3>7
  <2> QED BY <2>1, <2>2 DEF SyncInit
<1> QED BY <1>2, <1>3, NotBegun DEF CoverInv, PlainInv, WorkInv, Covered

LEMMA CoverStep ==
  ASSUME CalendarTyped, LeaseTypeOK, WorksUnderLease, CoverInv, [SyncNext]_syncVars
  PROVE  CoverInv'
<1>1. CASE UNCHANGED calendarVars /\ ((\E r \in SyncRuns : LeaseStep(r)) \/ ExpireLease \/ UserStep)
  BY <1>1, LeaseStepCovers
<1>2. ASSUME NEW r \in SyncRuns, SucceedSync(r) \/ FailSync(r) \/ CrashRun(r), Forget(r)
      PROVE  CoverInv'
  <2>1. lapsed' = lapsed /\ \A q \in SyncRuns : q # r => syncRuns'[q] = syncRuns[q]
    BY <1>2 DEF SucceedSync, FailSync, FinishWork, CrashRun, LeaseTypeOK
  <2> QED BY <1>2, <2>1, ForgetCovers
<1>3. ASSUME NEW r \in SyncRuns, SyncStep(r), UNCHANGED leaseVars
      PROVE  CoverInv'
  BY <1>3, RunStepCovers
<1>4. CASE EditStep /\ UNCHANGED leaseVars
  BY <1>4, EditCovers
<1>5. CASE UNCHANGED syncVars
  <2>1. UNCHANGED <<localEvents, remoteEvents, tick, mappings, cursor, pullOnly, syncs, edits,
                    unseen, missed, disturbed, syncRuns, lapsed>>
    BY <1>5 DEF syncVars, calendarVars, leaseVars
  <2> QED BY <2>1 DEF CoverInv, PlainInv, WorkInv, AtWork, PendingHolds, LiveCovered, KeptRowsHold,
             WrittenRowHolds, RowHolds, Newer, Unsettled, KeptFor, WrittenFor, Tells, Writes, Keeps,
             PairedUp, UnusedIsUnwritten, Live, Covered, CursorCovered, RowsCovered, Begun, Quiet,
             Converged, Paired
<1> QED BY <1>1, <1>2, <1>3, <1>4, <1>5 DEF SyncNext

LEMMA AlwaysCovered == SyncSpec => []CoverInv
<1>1. CalendarTyped /\ LeaseTypeOK /\ WorksUnderLease /\ CoverInv /\ [SyncNext]_syncVars => CoverInv'
  BY CoverStep
<1> QED BY <1>1, CoverInitially, CalendarAlwaysTyped, SyncLeaseTypeCorrect, SyncWorksUnderLease,
        PTL DEF SyncSpec

(* What the stored cursor has passed has been taken in, whatever failed,    *)
(* crashed or was restarted between a pull and the row that records it: no  *)
(* later run skips a change of the provider's because an earlier one saw it *)
(* and did not finish.                                                      *)
THEOREM CursorNeverSkips == SyncSpec => []CursorCovers
<1>1. CoverInv => CursorCovers
  BY DEF CoverInv, WorkInv, Covered, CursorCovered, CursorCovers, Tells
<1> QED BY <1>1, AlwaysCovered, PTL

(* A two-way sync that nobody disturbs and that ends well leaves both sides *)
(* equal, whatever it found: rows half written by runs that crashed, events *)
(* pushed whose row was never saved, deletions on either side.              *)
THEOREM QuietSyncsConverge == SyncSpec => []QuietSyncConverges
<1>1. CoverInv => QuietSyncConverges
  BY DEF CoverInv, WorkInv, Quiet, Converged, QuietSyncConverges
<1> QED BY <1>1, AlwaysCovered, PTL
=============================================================================
