---------------------------- MODULE OutputProofs ----------------------------
(***************************************************************************)
(* Proofs about Outputs: for any number of archivers, host workers and     *)
(* cleaners, published output is readable, cleaned output stays clean,     *)
(* uploads match the plan, and an expired row is final.  The invariant     *)
(* says what each process may rely on while it is suspended: the ticket    *)
(* and the plan it carries are the row's, and every object it saw confirmed *)
(* is still there unless the row has expired.  Nothing in it mentions the  *)
(* time: leases and deadlines only decide who goes first.                  *)
(***************************************************************************)
EXTENDS Outputs, TLAPS

Plans == Digests \union {None}
RowRecords == [status : Open \union {"published", "expired"}, rev : Nat, lease : BOOLEAN,
               ticket : Tickets, plans : Plans, refs : Plans,
               response : {0} \union Policies, compacted : BOOLEAN]
Manifests == [ticket : Tickets, plans : Plans, refs : Plans]
CleanRecords == [queued : BOOLEAN, rev : Nat, lease : BOOLEAN,
                 manifest : {None} \union Manifests, done : BOOLEAN]
ArchRecords == [ticket : Tickets, plans : Plans, rev : 0..MaxClaims]
ArcRecords == [pc : {"idle", "claimed", "prepare", "archive", "wait", "save", "publish"},
               rev : 0..MaxClaims, ticket : Tickets, plans : Plans]
WkRecords == [pc : {"idle", "sent", "collect", "look", "recapture", "put", "confirm", "finish",
                    "reply"},
              by : Archivers \union {None}, kind : {"prepare", "archive"}, rev : 0..MaxClaims,
              ticket : Tickets, plans : Plans, have : SUBSET Streams, at : Streams]
ClrRecords == [pc : {"idle", "prepare", "look", "mark", "marked", "remove", "complete"},
               rev : Nat, at : Streams, mode : {"create", "update"}]
ObjectRecords == [cur : {"none", "data", "marker"}, digest : Plans, old : BOOLEAN]

BucketTypes ==
    /\ objects \in [Keys -> ObjectRecords]
    /\ puts \subseteq Attempts \X Streams \X Digests
    /\ marks \subseteq Attempts \X Streams \X {"create", "update"}

Typed ==
    /\ now \in 0..MaxNow /\ lapsed \in 0..MaxClaims /\ faults \in 0..MaxFaults
    /\ guest \in BOOLEAN
    /\ row \in RowRecords /\ clean \in CleanRecords /\ arch \in ArchRecords
    /\ arc \in [Archivers -> ArcRecords] /\ wk \in [Workers -> WkRecords]
    /\ clr \in [Cleaners -> ClrRecords]
    /\ BucketTypes

Expired == row.status = "expired"
Ticketed == row.ticket # NoTicket
Planned == row.plans # None

(* A stream's object holds the plan, or the row has expired.               *)
Kept(s) == Expired \/ Holds(objects[<<row.ticket.attempt, s>>], row.plans)

(* A stream's object is a marker without a previous version.               *)
Buried(s) == LET o == objects[<<row.ticket.attempt, s>>] IN o.cur = "marker" /\ ~o.old

(* The operation row and the host's archive record.                        *)
RowOK ==
    /\ Ticketed => row.ticket.attempt \in Attempts
    /\ Planned => arch.plans = row.plans
    /\ arch.plans # None => Ticketed
    /\ Expired => ~row.lease
    /\ row.compacted => Expired
    /\ row.status = "published" =>
          Planned /\ row.refs = row.plans /\ \A s \in Streams : Kept(s)

(* The cleanup row.                                                        *)
CleanOK ==
    /\ clean.queued => Ticketed
    /\ clean.manifest = None \/ (clean.manifest = Inventory /\ Expired)
    /\ clean.done => Expired /\ (~Planned \/ \A s \in Streams : Buried(s))

(* The bucket, and what is on its way to it.                               *)
ObjectOK(attempt, o) ==
    /\ o.cur # "none" => attempt = row.ticket.attempt
    /\ o.cur = "data" => Planned /\ o.digest = row.plans
    /\ o.old => Planned /\ o.cur = "marker"

BucketOK ==
    /\ \A key \in Keys : ObjectOK(key[1], objects[key])
    /\ \A p \in puts : p[1] = row.ticket.attempt /\ p[3] = row.plans
    /\ \A m \in marks : m[1] = row.ticket.attempt /\ Expired

(* What a suspended archiver, host worker and cleaner relies on.           *)
ArcOK(x) ==
    /\ x.pc = "claimed" => x.rev \in Attempts
    /\ x.pc \in {"prepare", "archive"} => Ticketed /\ x.ticket = row.ticket
    /\ x.pc \in {"archive", "publish"} => Planned /\ x.plans = row.plans
    /\ x.pc = "save" => arch.plans # None /\ x.plans = arch.plans
    /\ x.pc = "publish" => \A s \in Streams : Kept(s)

Preparing(x) ==
    /\ x.pc \in {"sent", "collect", "finish", "reply"}
    /\ x.pc \in {"finish", "reply"} => x.plans # None
    /\ x.pc = "reply" => x.plans = arch.plans

Archiving(x) ==
    /\ x.pc # "collect" /\ Planned /\ x.plans = row.plans
    /\ x.pc = "sent" => x.have = {}
    /\ x.pc = "recapture" => x.at = 1
    /\ \A s \in x.have : Kept(s)
    /\ x.pc \in {"put", "confirm"} /\ x.at = 2 => Kept(1)
    /\ x.pc \in {"finish", "reply"} => \A s \in Streams : Kept(s)

WkOK(x) ==
    x.pc # "idle" =>
        /\ Ticketed /\ x.ticket = row.ticket
        /\ x.kind = "prepare" => Preparing(x)
        /\ x.kind = "archive" => Archiving(x)

Retiring == {"look", "mark", "marked", "remove"}
ClrOK(x) ==
    /\ x.pc # "idle" => clean.queued
    /\ x.pc = "prepare" => x.at = 1
    /\ x.pc \in Retiring \union {"complete"} => clean.manifest = Inventory /\ Expired
    /\ x.pc \in Retiring => Planned
    /\ x.pc \in Retiring /\ x.at = 2 => Buried(1)
    /\ x.pc = "complete" => ~Planned \/ \A s \in Streams : Buried(s)

Shared == RowOK /\ CleanOK /\ BucketOK
Processes ==
    /\ \A a \in Archivers : ArcOK(arc[a])
    /\ \A w \in Workers : WkOK(wk[w])
    /\ \A k \in Cleaners : ClrOK(clr[k])

OutInv == Typed /\ Shared /\ Processes
-----------------------------------------------------------------------------
(* Frames.                                                                 *)

(* Streams and the keys of objects.                                        *)
LEMMA KeyFacts ==
    /\ 1 \in Streams /\ 2 \in Streams /\ 1 # 2 /\ \A s \in Streams : s = 1 \/ s = 2
    /\ \A a \in Attempts, s \in Streams : <<a, s>> \in Keys
    /\ \A key \in Keys : key[1] \in Attempts /\ key[2] \in Streams /\ key = <<key[1], key[2]>>
    /\ 0 \notin Attempts /\ NoTicket.attempt = 0 /\ NoTicket \in Tickets
  BY OutputsAssumption DEF Streams, Keys, Attempts, NoTicket, Tickets

(* Writes that are on their way.                                           *)
LEMMA WriteFacts ==
    ASSUME NEW T, NEW p \in Attempts \X Streams \X T
    PROVE  p[1] \in Attempts /\ p[2] \in Streams /\ p[3] \in T
  OBVIOUS

(* A step after which every fact a suspended process relies on still holds. *)
Grows ==
    /\ Ticketed => row'.ticket = row.ticket
    /\ Planned => row'.plans = row.plans
    /\ arch.plans # None => arch'.plans = arch.plans
    /\ Expired => Expired' /\ row'.plans = row.plans
    /\ clean.queued => clean'.queued
    /\ clean.manifest = Inventory /\ Expired => (clean.manifest = Inventory)'
    /\ \A s \in Streams : Ticketed /\ Planned /\ Kept(s) => Kept(s)'
    /\ \A s \in Streams : Ticketed /\ Buried(s) => Buried(s)'

(* An archiver that a step leaves alone.                                   *)
LEMMA ArcStable ==
    ASSUME NEW x, RowOK, Grows, ArcOK(x)
    PROVE  ArcOK(x)'
  <1>1. (x.pc = "claimed" => x.rev \in Attempts)'  BY DEF ArcOK
  <1>2. (x.pc \in {"prepare", "archive"} => Ticketed /\ x.ticket = row.ticket)'
    BY DEF ArcOK, Grows, Ticketed
  <1>3. (x.pc \in {"archive", "publish"} => Planned /\ x.plans = row.plans)'
    BY DEF ArcOK, Grows, Planned
  <1>4. (x.pc = "save" => arch.plans # None /\ x.plans = arch.plans)'
    BY DEF ArcOK, Grows
  <1>5. (x.pc = "publish" => \A s \in Streams : Kept(s))'
    <2>1. Planned => Ticketed  BY DEF RowOK, Planned
    <2>2. ASSUME x.pc = "publish", NEW s \in Streams PROVE Kept(s)'
      <3>1. Planned /\ Kept(s)  BY <2>2 DEF ArcOK
      <3> QED BY <2>1, <3>1 DEF Grows
    <2> QED BY <2>2
  <1> QED BY <1>1, <1>2, <1>3, <1>4, <1>5 DEF ArcOK

(* A host worker that a step leaves alone.                                 *)
LEMMA WkStable ==
    ASSUME NEW x \in WkRecords, RowOK, Grows, WkOK(x)
    PROVE  WkOK(x)'
  <1> SUFFICES ASSUME x.pc # "idle"
               PROVE  /\ (Ticketed /\ x.ticket = row.ticket)'
                      /\ x.kind = "prepare" => Preparing(x)'
                      /\ x.kind = "archive" => Archiving(x)'
    BY DEF WkOK
  <1>1. Ticketed /\ x.ticket = row.ticket  BY DEF WkOK
  <1>2. (Ticketed /\ x.ticket = row.ticket)'  BY <1>1 DEF Grows, Ticketed
  <1>3. ASSUME x.kind = "prepare" PROVE Preparing(x)'
    <2>1. Preparing(x)  BY <1>3 DEF WkOK
    <2>2. x.plans = arch.plans /\ x.plans # None => x.plans = arch'.plans  BY DEF Grows
    <2> QED BY <2>1, <2>2 DEF Preparing
  <1>4. ASSUME x.kind = "archive" PROVE Archiving(x)'
    <2>1. Archiving(x)  BY <1>4 DEF WkOK
    <2>2. Planned /\ x.plans = row.plans  BY <2>1 DEF Archiving
    <2>3. (Planned /\ x.plans = row.plans)'  BY <2>2 DEF Grows, Planned
    <2>4. \A s \in Streams : Kept(s) => Kept(s)'  BY <1>1, <2>2 DEF Grows
    <2>5. x.have \subseteq Streams /\ 1 \in Streams  BY KeyFacts DEF WkRecords
    <2> QED BY <2>1, <2>3, <2>4, <2>5 DEF Archiving
  <1> QED BY <1>2, <1>3, <1>4

(* A cleaner that a step leaves alone.                                     *)
LEMMA ClrStable ==
    ASSUME NEW x, CleanOK, Grows, ClrOK(x)
    PROVE  ClrOK(x)'
  <1>1. (x.pc # "idle" => clean.queued)' /\ (x.pc = "prepare" => x.at = 1)'
    BY DEF ClrOK, Grows
  <1>2. (x.pc \in Retiring \union {"complete"} => clean.manifest = Inventory /\ Expired)'
    BY DEF ClrOK, Grows
  <1>3. (x.pc \in Retiring => Planned)'  BY DEF ClrOK, Grows, Planned
  <1>4. x.pc # "idle" => Ticketed  BY DEF ClrOK, CleanOK
  <1>5. (x.pc \in Retiring /\ x.at = 2 => Buried(1))'
    BY <1>4, KeyFacts DEF ClrOK, Grows, Retiring
  <1>6. (x.pc = "complete" => ~Planned \/ \A s \in Streams : Buried(s))'
    <2>1. x.pc = "complete" => Ticketed /\ Expired  BY <1>4 DEF ClrOK
    <2>2. CASE x.pc = "complete" /\ ~Planned
      BY <2>1, <2>2 DEF Grows, Planned
    <2>3. CASE x.pc = "complete" /\ \A s \in Streams : Buried(s)
      BY <2>1, <2>3 DEF Grows
    <2>4. CASE x.pc # "complete"  BY <2>4
    <2> QED BY <2>2, <2>3, <2>4 DEF ClrOK
  <1> QED BY <1>1, <1>2, <1>3, <1>5, <1>6 DEF ClrOK

(* A step keeps the invariant if it keeps the shared part, and every       *)
(* process is as it was or as it should be.                                *)
LEMMA Framed ==
    ASSUME OutInv, Typed', Shared', Grows,
           \A a \in Archivers : arc'[a] = arc[a] \/ ArcOK(arc[a])',
           \A w \in Workers : wk'[w] = wk[w] \/ WkOK(wk[w])',
           \A k \in Cleaners : clr'[k] = clr[k] \/ ClrOK(clr[k])'
    PROVE  OutInv'
  <1>1. RowOK /\ CleanOK  BY DEF OutInv, Shared
  <1>2. ASSUME NEW a \in Archivers PROVE ArcOK(arc[a])'
    <2>1. PICK x : x = arc[a]  OBVIOUS
    <2>2. ArcOK(x)  BY <2>1 DEF OutInv, Processes
    <2>3. ArcOK(x)'  BY <1>1, <2>2, ArcStable
    <2> QED BY <2>1, <2>3 DEF ArcOK
  <1>3. ASSUME NEW w \in Workers PROVE WkOK(wk[w])'
    <2>1. PICK x : x = wk[w]  OBVIOUS
    <2>2. WkOK(x) /\ x \in WkRecords  BY <2>1 DEF OutInv, Processes, Typed
    <2>3. WkOK(x)'  BY <1>1, <2>2, WkStable
    <2> QED BY <2>1, <2>3 DEF WkOK, Preparing, Archiving
  <1>4. ASSUME NEW k \in Cleaners PROVE ClrOK(clr[k])'
    <2>1. PICK x : x = clr[k]  OBVIOUS
    <2>2. ClrOK(x)  BY <2>1 DEF OutInv, Processes
    <2>3. ClrOK(x)'  BY <1>1, <2>2, ClrStable
    <2> QED BY <2>1, <2>3 DEF ClrOK
  <1> QED BY <1>2, <1>3, <1>4 DEF OutInv, Processes

(* A step that writes no more of the shared state than claims and times.   *)
LEMMA SharedSame ==
    ASSUME Shared, UNCHANGED <<arch, objects, puts, marks>>,
           row'.status = row.status, row'.ticket = row.ticket, row'.plans = row.plans,
           row'.refs = row.refs, row'.compacted = row.compacted, Expired => ~row'.lease,
           clean'.queued = clean.queued, clean'.manifest = clean.manifest,
           clean'.done = clean.done
    PROVE  Shared' /\ Grows
  <1>1. (Expired' <=> Expired) /\ (Ticketed' <=> Ticketed) /\ (Planned' <=> Planned)
        /\ (clean.manifest = Inventory)' = (clean.manifest = Inventory)
    BY DEF Expired, Ticketed, Planned, Inventory
  <1>2. ASSUME NEW s PROVE (Kept(s)' <=> Kept(s)) /\ (Buried(s)' <=> Buried(s))
    BY <1>1 DEF Kept, Buried, Holds
  <1>3. RowOK'  BY <1>1, <1>2 DEF Shared, RowOK
  <1>4. CleanOK'  BY <1>1, <1>2 DEF Shared, CleanOK
  <1>5. BucketOK'  BY <1>1 DEF Shared, BucketOK, ObjectOK
  <1>6. Grows  BY <1>1, <1>2 DEF Grows
  <1> QED BY <1>3, <1>4, <1>5, <1>6 DEF Shared

(* The expiry of the row.                                                  *)
LEMMA SharedExpires ==
    ASSUME Shared, UNCHANGED <<arch, objects, puts, marks>>,
           row'.status = "expired", ~row'.lease, row'.ticket = row.ticket,
           row'.plans = row.plans, row'.refs = row.refs,
           clean'.queued = clean.queued, clean'.done = clean.done,
           \/ clean'.manifest = clean.manifest
           \/ clean'.manifest = Inventory
    PROVE  Shared' /\ Grows
  <1>1. Expired' /\ (Ticketed' <=> Ticketed) /\ (Planned' <=> Planned) /\ Inventory' = Inventory
    BY DEF Expired, Ticketed, Planned, Inventory
  <1>2. ASSUME NEW s PROVE Kept(s)' /\ (Buried(s)' <=> Buried(s))
    BY <1>1 DEF Kept, Buried
  <1>3. RowOK'  BY <1>1, <1>2 DEF Shared, RowOK
  <1>4. CleanOK'  BY <1>1, <1>2 DEF Shared, CleanOK
  <1>5. BucketOK'  BY <1>1 DEF Shared, BucketOK, ObjectOK
  <1>6. Grows  BY <1>1, <1>2 DEF Grows
  <1> QED BY <1>3, <1>4, <1>5, <1>6 DEF Shared

(* The first ticket of the row, and the renewal of its claim.              *)
LEMMA SharedTicket ==
    ASSUME Shared, BucketTypes, UNCHANGED <<arch, clean, objects, puts, marks>>,
           row.status \in Open,
           row'.ticket = row.ticket \/ (~Ticketed /\ row'.ticket.attempt \in Attempts),
           row'.ticket # NoTicket,
           row'.plans = row.plans, row'.refs = row.refs, row'.compacted = row.compacted,
           row'.status \in {"uploading", "expired"}, row'.status = "expired" => ~row'.lease
    PROVE  Shared' /\ Grows
  <1>1. ~Expired /\ Ticketed' /\ (Planned' <=> Planned)
    BY DEF Expired, Open, Ticketed, Planned
  <1>2. clean.manifest = None /\ ~clean.done /\ (Planned => Ticketed)
    BY <1>1 DEF Shared, CleanOK, RowOK, Planned
  <1>3. marks = {}  BY <1>1 DEF Shared, BucketOK
  <1>4. ASSUME NEW s \in Streams, Ticketed
        PROVE  (Kept(s) => Kept(s)') /\ (Buried(s) => Buried(s)')
    BY <1>1, <1>4 DEF Kept, Buried, Holds
  <1>5. RowOK'
    BY <1>1 DEF Shared, RowOK, Expired, Ticketed, Planned
  <1>6. CleanOK'  BY <1>1, <1>2 DEF Shared, CleanOK
  <1>7. BucketOK'
    <2>1. CASE Ticketed
      <3>1. row'.ticket = row.ticket  BY <2>1
      <3> QED BY <1>1, <1>3, <3>1 DEF Shared, BucketOK, ObjectOK
    <2>2. CASE ~Ticketed
      <3>1. row.ticket.attempt \notin Attempts  BY <2>2, KeyFacts DEF Ticketed
      <3>2. ASSUME NEW key \in Keys PROVE ObjectOK(key[1], objects[key])'
        <4>1. ObjectOK(key[1], objects[key]) /\ key[1] \in Attempts
          BY KeyFacts DEF Shared, BucketOK
        <4> QED BY <3>1, <4>1 DEF ObjectOK
      <3>3. puts = {}
        <4>1. ASSUME NEW p \in puts PROVE FALSE
          <5>1. p[1] = row.ticket.attempt /\ p[1] \in Attempts
            BY <4>1, WriteFacts DEF Shared, BucketOK, BucketTypes
          <5> QED BY <3>1, <5>1
        <4> QED BY <4>1
      <3> QED BY <1>3, <3>2, <3>3 DEF BucketOK
    <2> QED BY <2>1, <2>2
  <1>8. Grows  BY <1>1, <1>2, <1>4 DEF Grows, Ticketed
  <1> QED BY <1>5, <1>6, <1>7, <1>8 DEF Shared

(* The first plan of the row.                                              *)
LEMMA SharedPlan ==
    ASSUME Shared, BucketTypes, UNCHANGED <<arch, clean, objects, puts, marks>>,
           row.status \in Open, row.plans = None,
           row'.plans = arch.plans, arch.plans # None,
           row'.status = row.status, row'.ticket = row.ticket, row'.refs = row.refs,
           row'.compacted = row.compacted, row'.lease = row.lease
    PROVE  Shared' /\ Grows
  <1>1. ~Expired /\ ~Expired' /\ (Ticketed' <=> Ticketed) /\ ~Planned /\ Planned'
    BY DEF Expired, Open, Ticketed, Planned
  <1>2. clean.manifest = None /\ ~clean.done  BY <1>1 DEF Shared, CleanOK
  <1>3. marks = {}  BY <1>1 DEF Shared, BucketOK
  <1>4. puts = {}
    <2>1. ASSUME NEW p \in puts PROVE FALSE
      <3>1. p[3] = row.plans /\ p[3] \in Digests
        BY <2>1, WriteFacts DEF Shared, BucketOK, BucketTypes
      <3> QED BY <3>1, OutputsAssumption
    <2> QED BY <2>1
  <1>5. RowOK'  BY <1>1 DEF Shared, RowOK, Open, Expired
  <1>6. CleanOK'  BY <1>1, <1>2 DEF Shared, CleanOK
  <1>7. BucketOK'
    <2>1. ASSUME NEW key \in Keys PROVE ObjectOK(key[1], objects[key])'
      <3>1. ObjectOK(key[1], objects[key])  BY DEF Shared, BucketOK
      <3> QED BY <1>1, <3>1 DEF ObjectOK
    <2> QED BY <1>3, <1>4, <2>1 DEF BucketOK
  <1>8. \A s \in Streams : Buried(s) => Buried(s)'  BY DEF Buried
  <1>9. Grows  BY <1>1, <1>2, <1>8 DEF Grows, Ticketed
  <1> QED BY <1>5, <1>6, <1>7, <1>9 DEF Shared

(* Publication.                                                            *)
LEMMA SharedPublished ==
    ASSUME Shared, UNCHANGED <<arch, clean, objects, puts, marks>>,
           row.status \in Open, Planned, \A s \in Streams : Kept(s),
           row'.refs = row.plans, row'.status = "published", ~row'.lease,
           row'.plans = row.plans, row'.ticket = row.ticket, row'.compacted = row.compacted
    PROVE  Shared' /\ Grows
  <1>1. ~Expired /\ ~Expired' /\ (Ticketed' <=> Ticketed) /\ (Planned' <=> Planned)
    BY DEF Expired, Open, Ticketed, Planned
  <1>2. clean.manifest = None /\ ~clean.done  BY <1>1 DEF Shared, CleanOK
  <1>3. \A s \in Streams : Kept(s)' /\ (Buried(s) => Buried(s)')
    BY <1>1 DEF Kept, Buried, Holds
  <1>4. RowOK'  BY <1>1, <1>3 DEF Shared, RowOK
  <1>5. CleanOK'  BY <1>1, <1>2 DEF Shared, CleanOK
  <1>6. BucketOK'  BY <1>1 DEF Shared, BucketOK, ObjectOK
  <1>7. Grows  BY <1>1, <1>2, <1>3 DEF Grows
  <1> QED BY <1>4, <1>5, <1>6, <1>7 DEF Shared

(* The archive record of the host.                                         *)
LEMMA SharedArch ==
    ASSUME Shared, UNCHANGED <<row, clean, objects, puts, marks>>,
           \/ arch'.plans = arch.plans
           \/ arch.plans = None /\ Ticketed
    PROVE  Shared' /\ Grows
  <1>1. (Expired' <=> Expired) /\ (Ticketed' <=> Ticketed) /\ (Planned' <=> Planned)
        /\ Inventory' = Inventory
    BY DEF Expired, Ticketed, Planned, Inventory
  <1>2. \A s \in Streams : (Kept(s)' <=> Kept(s)) /\ (Buried(s)' <=> Buried(s))
    BY <1>1 DEF Kept, Buried, Holds
  <1>3. RowOK'  BY <1>1, <1>2 DEF Shared, RowOK, Planned
  <1>4. CleanOK'  BY <1>1, <1>2 DEF Shared, CleanOK
  <1>5. BucketOK'  BY <1>1 DEF Shared, BucketOK, ObjectOK
  <1>6. Grows  BY <1>1, <1>2 DEF Grows
  <1> QED BY <1>3, <1>4, <1>5, <1>6 DEF Shared

(* The cleanup row.                                                        *)
LEMMA SharedClean ==
    ASSUME Shared, UNCHANGED <<row, arch, objects, puts, marks>>,
           clean'.manifest = clean.manifest, clean.queued => clean'.queued,
           clean'.queued => Ticketed,
           clean'.done => Expired /\ (~Planned \/ \A s \in Streams : Buried(s))
    PROVE  Shared' /\ Grows
  <1>1. (Expired' <=> Expired) /\ (Ticketed' <=> Ticketed) /\ (Planned' <=> Planned)
        /\ Inventory' = Inventory
    BY DEF Expired, Ticketed, Planned, Inventory
  <1>2. \A s \in Streams : (Kept(s)' <=> Kept(s)) /\ (Buried(s)' <=> Buried(s))
    BY <1>1 DEF Kept, Buried, Holds
  <1>3. RowOK'  BY <1>1, <1>2 DEF Shared, RowOK
  <1>4. CleanOK'  BY <1>1, <1>2 DEF Shared, CleanOK
  <1>5. BucketOK'  BY <1>1 DEF Shared, BucketOK, ObjectOK
  <1>6. Grows  BY <1>1, <1>2 DEF Grows
  <1> QED BY <1>3, <1>4, <1>5, <1>6 DEF Shared

(* A write that is sent to the bucket.                                     *)
LEMMA SharedSends ==
    ASSUME Shared, UNCHANGED <<row, arch, clean, objects>>,
           \A p \in puts' : p \in puts \/ (p[1] = row.ticket.attempt /\ p[3] = row.plans),
           \A m \in marks' : m \in marks \/ (m[1] = row.ticket.attempt /\ Expired)
    PROVE  Shared' /\ Grows
  <1>1. (Expired' <=> Expired) /\ (Ticketed' <=> Ticketed) /\ (Planned' <=> Planned)
        /\ Inventory' = Inventory
    BY DEF Expired, Ticketed, Planned, Inventory
  <1>2. \A s \in Streams : (Kept(s)' <=> Kept(s)) /\ (Buried(s)' <=> Buried(s))
    BY <1>1 DEF Kept, Buried, Holds
  <1>3. RowOK'  BY <1>1, <1>2 DEF Shared, RowOK
  <1>4. CleanOK'  BY <1>1, <1>2 DEF Shared, CleanOK
  <1>5. BucketOK'
    <2>1. \A key \in Keys : ObjectOK(key[1], objects[key])'
      BY <1>1 DEF Shared, BucketOK, ObjectOK
    <2> QED BY <1>1, <2>1 DEF Shared, BucketOK
  <1>6. Grows  BY <1>1, <1>2 DEF Grows
  <1> QED BY <1>3, <1>4, <1>5, <1>6 DEF Shared

(* A write that the bucket applies.                                        *)
LEMMA SharedObject ==
    ASSUME Shared, BucketTypes, UNCHANGED <<row, arch, clean, puts, marks>>,
           NEW key \in Keys, NEW o \in ObjectRecords, objects' = [objects EXCEPT ![key] = o],
           ObjectOK(key[1], o),
           objects[key].cur = "marker" /\ ~objects[key].old => o.cur = "marker" /\ ~o.old,
           Expired \/ objects[key].cur # "data"
    PROVE  Shared' /\ Grows
  <1>1. (Expired' <=> Expired) /\ (Ticketed' <=> Ticketed) /\ (Planned' <=> Planned)
        /\ Inventory' = Inventory
    BY DEF Expired, Ticketed, Planned, Inventory
  <1>2. \A x \in Keys : objects'[x] = IF x = key THEN o ELSE objects[x]
    BY DEF BucketTypes
  <1>3. ASSUME NEW s \in Streams, Ticketed
        PROVE  (Kept(s) => Kept(s)') /\ (Buried(s) => Buried(s)')
    <2>1. PICK x : x = <<row.ticket.attempt, s>>  OBVIOUS
    <2>2. x \in Keys  BY <1>3, <2>1, KeyFacts DEF Shared, RowOK
    <2>3. objects'[x] = IF x = key THEN o ELSE objects[x]  BY <1>2, <2>2
    <2>4. Kept(s) => Kept(s)'  BY <1>1, <2>1, <2>3 DEF Kept, Holds
    <2>5. Buried(s) => Buried(s)'  BY <2>1, <2>3 DEF Buried
    <2> QED BY <2>4, <2>5
  <1>4. Planned => Ticketed  BY DEF Shared, RowOK, Planned
  <1>5. RowOK'
    <2>1. row.status = "published" => Ticketed  BY <1>4 DEF Shared, RowOK
    <2>2. row.status = "published" => \A s \in Streams : Kept(s)'
      BY <1>3, <2>1 DEF Shared, RowOK
    <2> QED BY <1>1, <2>2 DEF Shared, RowOK
  <1>6. CleanOK'  BY <1>1, <1>3, <1>4 DEF Shared, CleanOK
  <1>7. BucketOK'
    <2>1. ASSUME NEW x \in Keys PROVE ObjectOK(x[1], objects[x])'
      <3>1. ObjectOK(x[1], IF x = key THEN o ELSE objects[x])  BY DEF Shared, BucketOK
      <3> QED BY <1>1, <1>2, <3>1 DEF ObjectOK
    <2> QED BY <1>1, <2>1 DEF Shared, BucketOK
  <1>8. Grows  BY <1>1, <1>3 DEF Grows
  <1> QED BY <1>5, <1>6, <1>7, <1>8 DEF Shared
-----------------------------------------------------------------------------
(* The archivers.                                                          *)

(* The types of a reachable state, and its parts.                          *)
LEMMA Parts ==
    ASSUME OutInv
    PROVE  /\ Typed /\ Shared /\ RowOK /\ CleanOK /\ BucketOK
           /\ row \in RowRecords /\ clean \in CleanRecords /\ arch \in ArchRecords
           /\ \A a \in Archivers : arc[a] \in ArcRecords /\ ArcOK(arc[a])
           /\ \A w \in Workers : wk[w] \in WkRecords /\ WkOK(wk[w])
           /\ \A k \in Cleaners : clr[k] \in ClrRecords /\ ClrOK(clr[k])
           /\ BucketTypes /\ (Expired => ~row.lease)
  BY DEF OutInv, Typed, Shared, Processes, RowOK

(* Idle processes.                                                         *)
LEMMA Idles ==
    /\ IdleArchiver \in ArcRecords /\ IdleArchiver.pc = "idle"
    /\ IdleWorker \in WkRecords /\ IdleWorker.pc = "idle"
    /\ IdleCleaner \in ClrRecords /\ IdleCleaner.pc = "idle" /\ IdleCleaner.at = 1
  <1>1. 0 \in 0..MaxClaims /\ NoTicket \in Tickets /\ 1 \in Streams /\ 0 \in Nat
    BY OutputsAssumption, KeyFacts
  <1> QED BY <1>1 DEF IdleArchiver, IdleWorker, IdleCleaner, ArcRecords, WkRecords, ClrRecords,
      Plans

(* A bounded fault.                                                        *)
LEMMA FaultTyped ==
    ASSUME OutInv, Fault \/ NoFault
    PROVE  faults' \in 0..MaxFaults
  <1>1. faults \in 0..MaxFaults  BY DEF OutInv, Typed
  <1> QED BY <1>1, OutputsAssumption DEF Fault, NoFault

(* A claim of the publication.                                             *)
LEMMA ArchiverClaims ==
    ASSUME OutInv, NEW a \in Archivers, ClaimOutput(a)
    PROVE  OutInv'
  <1>1. UNCHANGED <<now, lapsed, clean, arch, guest, wk, objects, puts, marks, clr, faults>>
    BY DEF ClaimOutput, s3Vars
  <1>2. row.rev < MaxClaims /\ row.status \in Open /\ row.rev \in Nat /\ row \in RowRecords
    BY Parts DEF ClaimOutput, RowRecords
  <1>3. row.rev + 1 \in Attempts /\ row.rev + 1 \in 0..MaxClaims /\ row.rev + 1 \in Nat
    BY <1>2, OutputsAssumption DEF Attempts
  <1>4. PICK n : n = row.rev + 1  OBVIOUS
  <1>5. PICK r : r = [row EXCEPT !.rev = n, !.lease = TRUE]  OBVIOUS
  <1>6. PICK x : x = [IdleArchiver EXCEPT !.pc = "claimed", !.rev = n]  OBVIOUS
  <1>7. row' = r /\ arc' = [arc EXCEPT ![a] = x]  BY <1>4, <1>5, <1>6 DEF ClaimOutput
  <1>8. /\ r \in RowRecords /\ r.status = row.status /\ r.ticket = row.ticket
        /\ r.plans = row.plans /\ r.refs = row.refs /\ r.compacted = row.compacted
    BY <1>2, <1>3, <1>4, <1>5 DEF RowRecords
  <1>9. x \in ArcRecords /\ x.pc = "claimed" /\ x.rev = n
    BY <1>3, <1>4, <1>6, Idles DEF ArcRecords
  <1>10. Shared' /\ Grows
    BY <1>1, <1>2, <1>7, <1>8, Parts, SharedSame DEF Expired, Open
  <1>11. ArcOK(x)'  BY <1>3, <1>4, <1>9 DEF ArcOK
  <1>12. \A b \in Archivers : arc'[b] = IF b = a THEN x ELSE arc[b]
    BY <1>7 DEF OutInv, Typed
  <1>13. \A b \in Archivers : arc'[b] = arc[b] \/ ArcOK(arc[b])'
    BY <1>11, <1>12 DEF ArcOK
  <1>14. Typed'  BY <1>1, <1>7, <1>8, <1>9, Parts DEF Typed, BucketTypes
  <1> QED BY <1>1, <1>10, <1>13, <1>14, Framed

(* The ticket of a claim.                                                  *)
LEMMA TicketTyped ==
    ASSUME OutInv, NEW n \in Attempts
    PROVE  /\ TicketFor(n) \in Tickets /\ TicketFor(n) # NoTicket
           /\ Ticketed => TicketFor(n) = row.ticket
           /\ ~Ticketed => TicketFor(n).attempt = n
  <1>1. row.ticket \in Tickets /\ row.response \in {0} \union Policies
    BY Parts DEF RowRecords
  <1>2. CASE Ticketed  BY <1>1, <1>2 DEF Ticketed, TicketFor
  <1>3. CASE ~Ticketed
    <2>1. PICK e : e = IF row.response = 0 THEN Retention ELSE MinTime(Retention, row.response)
      OBVIOUS
    <2>2. e \in 0..Retention  BY <1>1, <2>1, OutputsAssumption DEF MinTime
    <2>3. TicketFor(n) = [attempt |-> n, expires |-> e]
      BY <1>3, <2>1 DEF TicketFor, Ticketed
    <2>4. n \in 0..MaxClaims /\ n # 0  BY OutputsAssumption DEF Attempts
    <2>5. TicketFor(n).attempt = n  BY <2>3
    <2> QED BY <1>3, <2>2, <2>3, <2>4, <2>5, KeyFacts DEF Tickets
  <1> QED BY <1>2, <1>3

(* prepare_output.                                                         *)
LEMMA ArchiverPrepares ==
    ASSUME OutInv, NEW a \in Archivers, PrepareOutput(a)
    PROVE  OutInv'
  <1>1. UNCHANGED <<now, lapsed, clean, arch, guest, wk, objects, puts, marks, clr, faults>>
    BY DEF PrepareOutput, s3Vars
  <1>2. /\ row.status \in Open /\ row.lease /\ row \in RowRecords
        /\ arc[a] \in ArcRecords /\ arc[a].rev \in Attempts
    BY Parts DEF PrepareOutput, Claimed, ArcOK
  <1>3. PICK t : t = TicketFor(arc[a].rev)  OBVIOUS
  <1>4. /\ t \in Tickets /\ t # NoTicket /\ (Ticketed => t = row.ticket)
        /\ ~Ticketed => t.attempt \in Attempts
    BY <1>2, <1>3, TicketTyped
  <1>5. PICK over \in BOOLEAN : over = (now >= t.expires \/ ResponseExpired)  OBVIOUS
  <1>6. PICK r : r = [row EXCEPT !.ticket = t,
                                 !.status = IF over THEN "expired" ELSE "uploading",
                                 !.lease = @ /\ ~over]
    OBVIOUS
  <1>7. PICK x : x = IF over THEN IdleArchiver
                     ELSE [arc[a] EXCEPT !.ticket = t, !.plans = row.plans,
                              !.pc = IF row.plans = None THEN "prepare" ELSE "archive"]
    OBVIOUS
  <1>8. row' = r /\ arc' = [arc EXCEPT ![a] = x]
    BY <1>3, <1>5, <1>6, <1>7 DEF PrepareOutput
  <1>9. /\ r \in RowRecords /\ r.ticket = t /\ r.plans = row.plans /\ r.refs = row.refs
        /\ r.compacted = row.compacted /\ r.status \in {"uploading", "expired"}
        /\ r.status = "expired" => ~r.lease
    BY <1>2, <1>4, <1>6 DEF RowRecords, Open
  <1>10. /\ x \in ArcRecords /\ x.pc \in {"idle", "prepare", "archive"}
         /\ x.pc # "idle" => x.ticket = t /\ x.plans = row.plans
         /\ x.pc = "archive" => row.plans # None
    <2>1. row.plans \in Plans  BY <1>2 DEF RowRecords
    <2> QED BY <1>2, <1>4, <1>7, <2>1, Idles DEF ArcRecords
  <1>11. Shared' /\ Grows
    <2>1. row'.ticket = row.ticket \/ (~Ticketed /\ row'.ticket.attempt \in Attempts)
      BY <1>4, <1>8, <1>9
    <2> QED BY <1>1, <1>2, <1>4, <1>8, <1>9, <2>1, Parts, SharedTicket
  <1>12. ArcOK(x)'  BY <1>4, <1>8, <1>9, <1>10 DEF ArcOK, Ticketed, Planned
  <1>13. \A b \in Archivers : arc'[b] = IF b = a THEN x ELSE arc[b]
    BY <1>8 DEF OutInv, Typed
  <1>14. \A b \in Archivers : arc'[b] = arc[b] \/ ArcOK(arc[b])'
    BY <1>12, <1>13 DEF ArcOK
  <1>15. Typed'  BY <1>1, <1>8, <1>9, <1>10, Parts DEF Typed, BucketTypes
  <1> QED BY <1>1, <1>11, <1>14, <1>15, Framed

(* save_output_plans.                                                      *)
LEMMA ArchiverSaves ==
    ASSUME OutInv, NEW a \in Archivers, SavePlans(a)
    PROVE  OutInv'
  <1>1. UNCHANGED <<now, lapsed, clean, arch, guest, wk, objects, puts, marks, clr, faults>>
    BY DEF SavePlans, s3Vars
  <1>2. /\ row.status \in Open /\ row \in RowRecords /\ arc[a] \in ArcRecords
        /\ row.ticket = arc[a].ticket /\ row.plans \in {None, arc[a].plans}
        /\ arc[a].plans = arch.plans /\ arch.plans # None
    BY Parts DEF SavePlans, Claimed, ArcOK
  <1>3. PICK d \in Plans : d = arc[a].plans  BY <1>2 DEF ArcRecords
  <1>4. PICK r : r = [row EXCEPT !.plans = d]  OBVIOUS
  <1>5. PICK x : x = [arc[a] EXCEPT !.pc = "archive"]  OBVIOUS
  <1>6. row' = r /\ arc' = [arc EXCEPT ![a] = x]
    BY <1>3, <1>4, <1>5 DEF SavePlans
  <1>7. /\ r \in RowRecords /\ r.ticket = row.ticket /\ r.plans = d /\ r.refs = row.refs
        /\ r.compacted = row.compacted /\ r.status = row.status /\ r.lease = row.lease
    BY <1>2, <1>3, <1>4 DEF RowRecords
  <1>8. x \in ArcRecords /\ x.pc = "archive" /\ x.ticket = row.ticket /\ x.plans = d
    BY <1>2, <1>3, <1>5 DEF ArcRecords
  <1>9. Ticketed  BY <1>2, Parts DEF RowOK
  <1>10. Shared' /\ Grows
    <2>1. CASE row.plans = None
      BY <1>1, <1>2, <1>3, <1>6, <1>7, <2>1, Parts, SharedPlan
    <2>2. CASE row.plans # None
      <3>1. row'.plans = row.plans  BY <1>2, <1>3, <1>6, <1>7, <2>2
      <3>2. ~Expired  BY <1>2 DEF Expired, Open
      <3> QED BY <1>1, <1>6, <1>7, <3>1, <3>2, Parts, SharedSame
    <2> QED BY <2>1, <2>2
  <1>11. ArcOK(x)'  BY <1>2, <1>3, <1>6, <1>7, <1>8, <1>9 DEF ArcOK, Ticketed, Planned
  <1>12. \A b \in Archivers : arc'[b] = IF b = a THEN x ELSE arc[b]
    BY <1>6 DEF OutInv, Typed
  <1>13. \A b \in Archivers : arc'[b] = arc[b] \/ ArcOK(arc[b])'
    BY <1>11, <1>12 DEF ArcOK
  <1>14. Typed'  BY <1>1, <1>6, <1>7, <1>8, Parts DEF Typed, BucketTypes
  <1> QED BY <1>1, <1>10, <1>13, <1>14, Framed

(* publish_output.                                                         *)
LEMMA ArchiverPublishes ==
    ASSUME OutInv, NEW a \in Archivers, Publish(a)
    PROVE  OutInv'
  <1>1. UNCHANGED <<now, lapsed, clean, arch, guest, wk, objects, puts, marks, clr, faults>>
    BY DEF Publish, s3Vars
  <1>2. /\ row.status \in Open /\ row \in RowRecords /\ row.plans = arc[a].plans
        /\ Planned /\ \A s \in Streams : Kept(s)
    BY Parts DEF Publish, Claimed, ArcOK
  <1>3. PICK r : r = [row EXCEPT !.refs = arc[a].plans, !.status = "published", !.lease = FALSE]
    OBVIOUS
  <1>4. row' = r /\ arc' = [arc EXCEPT ![a] = IdleArchiver]  BY <1>3 DEF Publish
  <1>5. /\ r \in RowRecords /\ r.ticket = row.ticket /\ r.plans = row.plans
        /\ r.refs = row.plans /\ r.compacted = row.compacted /\ r.status = "published" /\ ~r.lease
    <2>1. row.plans \in Plans  BY <1>2 DEF RowRecords
    <2> QED BY <1>2, <1>3, <2>1 DEF RowRecords
  <1>6. Shared' /\ Grows  BY <1>1, <1>2, <1>4, <1>5, Parts, SharedPublished
  <1>7. \A b \in Archivers : arc'[b] = IF b = a THEN IdleArchiver ELSE arc[b]
    BY <1>4 DEF OutInv, Typed
  <1>8. \A b \in Archivers : arc'[b] = arc[b] \/ ArcOK(arc[b])'
    BY <1>7, Idles DEF ArcOK
  <1>9. Typed'  BY <1>1, <1>4, <1>5, Idles, Parts DEF Typed, BucketTypes
  <1> QED BY <1>1, <1>6, <1>8, <1>9, Framed

(* A claim given back changes nothing else of the row.                     *)
LEMMA Defers ==
    ASSUME OutInv, NEW n, row' = Deferred(n)
    PROVE  /\ row' \in RowRecords /\ row'.status = row.status /\ row'.ticket = row.ticket
           /\ row'.plans = row.plans /\ row'.refs = row.refs /\ row'.compacted = row.compacted
           /\ Expired => ~row'.lease
  <1>1. row \in RowRecords /\ (Expired => ~row.lease)  BY Parts
  <1>2. row' = [row EXCEPT !.lease = FALSE] \/ row' = row  BY DEF Deferred
  <1> QED BY <1>1, <1>2 DEF RowRecords

(* A request that no caller waits for any more.                            *)
LEMMA Orphaned ==
    ASSUME OutInv, NEW a, NEW w \in Workers,
           wk' = [v \in Workers |-> IF wk[v].by = a THEN [wk[v] EXCEPT !.by = None] ELSE wk[v]],
           Shared', Grows
    PROVE  wk'[w] \in WkRecords /\ WkOK(wk[w])'
  <1>1. PICK x \in WkRecords : x = wk[w] /\ WkOK(x)  BY Parts
  <1>2. WkOK(x)'  BY <1>1, Parts, WkStable
  <1>3. PICK y : y = wk'[w]  OBVIOUS
  <1>4. y = [x EXCEPT !.by = None] \/ y = x  BY <1>1, <1>3
  <1>5. /\ y \in WkRecords /\ y.pc = x.pc /\ y.kind = x.kind /\ y.ticket = x.ticket
        /\ y.plans = x.plans /\ y.have = x.have /\ y.at = x.at
    BY <1>4 DEF WkRecords
  <1> QED BY <1>2, <1>3, <1>5 DEF WkOK, Preparing, Archiving

(* An archiver that fails or dies.                                         *)
LEMMA ArchiverEnds ==
    ASSUME OutInv, NEW a \in Archivers, ArchiverFails(a) \/ ArchiverDies(a)
    PROVE  OutInv'
  <1>1. /\ UNCHANGED <<now, lapsed, clean, arch, guest, objects, puts, marks, clr>>
        /\ arc' = [arc EXCEPT ![a] = IdleArchiver]
        /\ wk' = [w \in Workers |-> IF wk[w].by = a THEN [wk[w] EXCEPT !.by = None] ELSE wk[w]]
        /\ Fault \/ NoFault
    BY DEF ArchiverFails, ArchiverDies, s3Vars, dbVars
  <1>2. /\ row' \in RowRecords /\ row'.status = row.status /\ row'.ticket = row.ticket
        /\ row'.plans = row.plans /\ row'.refs = row.refs /\ row'.compacted = row.compacted
        /\ Expired => ~row'.lease
    BY Defers, Parts DEF ArchiverFails, ArchiverDies, dbVars
  <1>3. Shared' /\ Grows  BY <1>1, <1>2, Parts, SharedSame
  <1>4. \A b \in Archivers : arc'[b] = IF b = a THEN IdleArchiver ELSE arc[b]
    BY <1>1 DEF OutInv, Typed
  <1>5. \A b \in Archivers : arc'[b] = arc[b] \/ ArcOK(arc[b])'
    BY <1>4, Idles DEF ArcOK
  <1>6. \A w \in Workers : wk'[w] \in WkRecords /\ WkOK(wk[w])'  BY <1>1, <1>3, Orphaned
  <1>7. wk' \in [Workers -> WkRecords]  BY <1>1, <1>6
  <1>8. faults' \in 0..MaxFaults  BY <1>1, FaultTyped
  <1>9. Typed'  BY <1>1, <1>2, <1>7, <1>8, Idles, Parts DEF Typed, BucketTypes
  <1> QED BY <1>1, <1>3, <1>5, <1>6, <1>9, Framed

(* A request sent to the host.                                             *)
LEMMA ArchiverSends ==
    ASSUME OutInv, NEW a \in Archivers, NEW w \in Workers, Send(a, w)
    PROVE  OutInv'
  <1>1. UNCHANGED <<now, lapsed, row, clean, arch, guest, objects, puts, marks, clr, faults>>
    BY DEF Send, s3Vars, dbVars
  <1>2. arc[a] \in ArcRecords /\ ArcOK(arc[a]) /\ arc[a].pc \in {"prepare", "archive"}
    BY Parts DEF Send
  <1>3. PICK x : x = [IdleWorker EXCEPT !.pc = "sent", !.by = a, !.kind = arc[a].pc,
                         !.rev = arc[a].rev, !.ticket = arc[a].ticket, !.plans = arc[a].plans]
    OBVIOUS
  <1>4. PICK y : y = [arc[a] EXCEPT !.pc = "wait"]  OBVIOUS
  <1>5. wk' = [wk EXCEPT ![w] = x] /\ arc' = [arc EXCEPT ![a] = y]
    BY <1>3, <1>4 DEF Send
  <1>6. y \in ArcRecords /\ y.pc = "wait"  BY <1>2, <1>4 DEF ArcRecords
  <1>7. /\ x \in WkRecords /\ x.pc = "sent" /\ x.kind = arc[a].pc /\ x.ticket = arc[a].ticket
        /\ x.plans = arc[a].plans
    <2>1. /\ arc[a].rev \in 0..MaxClaims /\ arc[a].ticket \in Tickets /\ arc[a].plans \in Plans
      BY <1>2 DEF ArcRecords
    <2> QED BY <1>2, <1>3, <2>1, Idles DEF WkRecords
  <1>8. x.have = {}  BY <1>3 DEF IdleWorker
  <1>9. Shared' /\ Grows  BY <1>1, Parts, SharedSame
  <1>10. WkOK(x)'
    <2>1. WkOK(x)  BY <1>2, <1>7, <1>8 DEF WkOK, ArcOK, Preparing, Archiving
    <2> QED BY <1>7, <1>9, <2>1, Parts, WkStable
  <1>11. \A b \in Archivers : arc'[b] = IF b = a THEN y ELSE arc[b]
    BY <1>5 DEF OutInv, Typed
  <1>12. \A b \in Archivers : arc'[b] = arc[b] \/ ArcOK(arc[b])'
    BY <1>6, <1>11 DEF ArcOK
  <1>13. \A v \in Workers : wk'[v] = IF v = w THEN x ELSE wk[v]
    BY <1>5 DEF OutInv, Typed
  <1>14. \A v \in Workers : wk'[v] = wk[v] \/ WkOK(wk[v])'
    BY <1>10, <1>13 DEF WkOK, Preparing, Archiving
  <1>15. Typed'  BY <1>1, <1>5, <1>6, <1>7, Parts DEF Typed, BucketTypes
  <1> QED BY <1>1, <1>9, <1>12, <1>14, <1>15, Framed
-----------------------------------------------------------------------------
(* The host's archive workers.                                             *)

(* A step of one worker, given what it leaves the worker with.             *)
LEMMA WorkerFrame ==
    ASSUME OutInv, NEW w \in Workers, NEW x \in WkRecords, wk' = [wk EXCEPT ![w] = x],
           UNCHANGED <<now, lapsed, row, clean, guest, arc, objects, marks, clr, faults>>,
           arch' \in ArchRecords, puts' \subseteq Attempts \X Streams \X Digests,
           Shared', Grows, WkOK(x)'
    PROVE  OutInv'
  <1>1. \A v \in Workers : wk'[v] = IF v = w THEN x ELSE wk[v]  BY DEF OutInv, Typed
  <1>2. \A v \in Workers : wk'[v] = wk[v] \/ WkOK(wk[v])'
    BY <1>1 DEF WkOK, Preparing, Archiving
  <1>3. Typed'  BY Parts DEF Typed, BucketTypes
  <1> QED BY <1>2, <1>3, Framed

(* A step of one worker that only it can see.                              *)
LEMMA WorkerAlone ==
    ASSUME OutInv, NEW w \in Workers, NEW x \in WkRecords, wk' = [wk EXCEPT ![w] = x],
           UNCHANGED <<now, lapsed, row, clean, arch, guest, arc, objects, puts, marks, clr,
                       faults>>,
           WkOK(x)
    PROVE  OutInv'
  <1>1. Shared' /\ Grows  BY Parts, SharedSame
  <1>2. WkOK(x)'  BY <1>1, Parts, WkStable
  <1>3. arch' \in ArchRecords /\ puts' \subseteq Attempts \X Streams \X Digests
    BY Parts DEF BucketTypes
  <1> QED BY <1>1, <1>2, <1>3, WorkerFrame

(* A worker beyond its first step: the kind of its request.                *)
LEMMA WorkerKind ==
    ASSUME OutInv, NEW w \in Workers, wk[w].pc # "idle"
    PROVE  /\ wk[w] \in WkRecords /\ Ticketed /\ wk[w].ticket = row.ticket
           /\ \/ wk[w].kind = "prepare" /\ Preparing(wk[w])
              \/ wk[w].kind = "archive" /\ Archiving(wk[w])
           /\ wk[w].pc \in {"look", "recapture", "put", "confirm"} =>
                 wk[w].kind = "archive" /\ Archiving(wk[w])
           /\ wk[w].pc = "collect" => wk[w].kind = "prepare"
  <1>1. wk[w] \in WkRecords /\ WkOK(wk[w])  BY Parts
  <1>2. wk[w].kind \in {"prepare", "archive"}  BY <1>1 DEF WkRecords
  <1>3. \/ wk[w].kind = "prepare" /\ Preparing(wk[w])
        \/ wk[w].kind = "archive" /\ Archiving(wk[w])
    BY <1>1, <1>2 DEF WkOK
  <1>4. Preparing(wk[w]) => wk[w].pc \notin {"look", "recapture", "put", "confirm"}
    BY DEF Preparing
  <1>5. Archiving(wk[w]) => wk[w].pc # "collect"  BY DEF Archiving
  <1> QED BY <1>1, <1>3, <1>4, <1>5 DEF WkOK

(* output_setup.                                                           *)
LEMMA WorkerSets ==
    ASSUME OutInv, NEW w \in Workers, Setup(w)
    PROVE  OutInv'
  <1>1. UNCHANGED <<now, lapsed, row, clean, guest, arc, objects, puts, marks, clr, faults>>
    BY DEF Setup, s3Vars, dbVars
  <1>2. wk[w].pc = "sent" /\ wk[w].pc # "idle"  BY DEF Setup
  <1>3. /\ wk[w] \in WkRecords /\ Ticketed /\ wk[w].ticket = row.ticket
        /\ \/ wk[w].kind = "prepare"
           \/ wk[w].kind = "archive" /\ Archiving(wk[w])
    BY <1>2, WorkerKind
  <1>4. arch \in ArchRecords  BY Parts
  <1>5. PICK b : b = [arch EXCEPT !.ticket = wk[w].ticket, !.rev = wk[w].rev]  OBVIOUS
  <1>6. arch' = b  BY <1>5 DEF Setup
  <1>7. b \in ArchRecords /\ b.plans = arch.plans
    <2>1. wk[w].ticket \in Tickets /\ wk[w].rev \in 0..MaxClaims  BY <1>3 DEF WkRecords
    <2> QED BY <1>4, <1>5, <2>1 DEF ArchRecords
  <1>8. Shared' /\ Grows  BY <1>1, <1>6, <1>7, Parts, SharedArch
  <1>9. puts' \subseteq Attempts \X Streams \X Digests  BY <1>1, Parts DEF BucketTypes
  <1>10. CASE wk[w].kind = "archive"
    <2>1. PICK x : x = [wk[w] EXCEPT !.pc = "look"]  OBVIOUS
    <2>2. wk' = [wk EXCEPT ![w] = x]
      <3>1. wk' = [wk EXCEPT ![w] = [[wk[w] EXCEPT !.pc = "look"] EXCEPT !.plans = @]]
        BY <1>10, Parts DEF Setup, Typed
      <3>2. [[wk[w] EXCEPT !.pc = "look"] EXCEPT !.plans = @] = x
        BY <1>3, <2>1 DEF WkRecords
      <3> QED BY <3>1, <3>2
    <2>3. /\ x \in WkRecords /\ x.pc = "look" /\ x.kind = "archive" /\ x.ticket = row.ticket
          /\ x.plans = wk[w].plans /\ x.have = wk[w].have
      BY <1>3, <1>10, <2>1 DEF WkRecords
    <2>4. WkOK(x)  BY <1>2, <1>3, <1>10, <2>3 DEF WkOK, Archiving
    <2>5. WkOK(x)'  BY <1>8, <2>3, <2>4, Parts, WkStable
    <2> QED BY <1>1, <1>6, <1>7, <1>8, <1>9, <2>2, <2>3, <2>5, WorkerFrame
  <1>11. CASE wk[w].kind = "prepare"
    <2>1. PICK x : x = [wk[w] EXCEPT !.pc = IF arch.plans = None THEN "collect" ELSE "finish",
                                     !.plans = arch.plans]
      OBVIOUS
    <2>2. wk' = [wk EXCEPT ![w] = x]
      BY <1>11, <2>1, Parts DEF Setup, Typed
    <2>3. /\ x \in WkRecords /\ x.pc \in {"collect", "finish"} /\ x.kind = "prepare"
          /\ x.ticket = row.ticket /\ (x.pc = "finish" => x.plans # None)
      <3>1. arch.plans \in Plans  BY <1>4 DEF ArchRecords
      <3> QED BY <1>3, <1>11, <2>1, <3>1 DEF WkRecords
    <2>4. WkOK(x)  BY <1>3, <2>3 DEF WkOK, Preparing
    <2>5. WkOK(x)'  BY <1>8, <2>3, <2>4, Parts, WkStable
    <2> QED BY <1>1, <1>6, <1>7, <1>8, <1>9, <2>2, <2>3, <2>5, WorkerFrame
  <1> QED BY <1>3, <1>10, <1>11

(* Only a confirmed object counts.                                         *)
LEMMA Confirmed ==
    ASSUME NEW w \in Workers, wk[w].ticket = row.ticket, wk[w].plans = row.plans,
           NEW s, Holds(objects[<<wk[w].ticket.attempt, s>>], wk[w].plans)
    PROVE  Kept(s)
  BY DEF Kept

(* The capture of the output, and the look at what is there already.       *)
LEMMA WorkerCollects ==
    ASSUME OutInv, NEW w \in Workers, NEW d \in Digests, Collect(w, d) \/ Recapture(w, d)
    PROVE  OutInv'
  <1>1. UNCHANGED <<now, lapsed, row, clean, arch, guest, arc, objects, puts, marks, clr, faults>>
    BY DEF Collect, Recapture, s3Vars, dbVars
  <1>2. wk[w] \in WkRecords /\ d \in Plans /\ d # None
    BY Parts, OutputsAssumption DEF Plans
  <1>3. CASE Collect(w, d)
    <2>1. wk[w].pc = "collect" /\ wk[w].pc # "idle"  BY <1>3 DEF Collect
    <2>2. wk[w].kind = "prepare" /\ Ticketed /\ wk[w].ticket = row.ticket
      BY <2>1, WorkerKind
    <2>3. PICK x : x = [wk[w] EXCEPT !.plans = d, !.pc = "finish"]  OBVIOUS
    <2>4. wk' = [wk EXCEPT ![w] = x]  BY <1>3, <2>3, Parts DEF Collect, Typed
    <2>5. /\ x \in WkRecords /\ x.pc = "finish" /\ x.plans = d /\ x.kind = "prepare"
          /\ x.ticket = row.ticket
      BY <1>2, <2>2, <2>3 DEF WkRecords
    <2>6. WkOK(x)  BY <1>2, <2>2, <2>5 DEF WkOK, Preparing
    <2> QED BY <1>1, <2>4, <2>5, <2>6, WorkerAlone
  <1>4. CASE Recapture(w, d)
    <2>1. wk[w].pc = "recapture" /\ wk[w].pc # "idle"  BY <1>4 DEF Recapture
    <2>2. wk[w].kind = "archive" /\ Archiving(wk[w]) /\ Ticketed /\ wk[w].ticket = row.ticket
      BY <2>1, WorkerKind
    <2>3. PICK x : x = [wk[w] EXCEPT !.pc = "put"]  OBVIOUS
    <2>4. wk' = [wk EXCEPT ![w] = x]  BY <1>4, <2>3, Parts DEF Recapture, Typed
    <2>5. /\ x \in WkRecords /\ x.pc = "put" /\ x.plans = wk[w].plans /\ x.kind = "archive"
          /\ x.ticket = row.ticket /\ x.at = wk[w].at /\ x.have = wk[w].have
      BY <1>2, <2>2, <2>3 DEF WkRecords
    <2>6. x.at = 1  BY <2>1, <2>2, <2>5 DEF Archiving
    <2>7. WkOK(x)  BY <2>2, <2>5, <2>6 DEF WkOK, Archiving
    <2> QED BY <1>1, <2>4, <2>5, <2>7, WorkerAlone
  <1> QED BY <1>3, <1>4

(* reconcile.                                                              *)
LEMMA WorkerLooks ==
    ASSUME OutInv, NEW w \in Workers, Look(w)
    PROVE  OutInv'
  <1>1. UNCHANGED <<now, lapsed, row, clean, arch, guest, arc, objects, puts, marks, clr, faults>>
    BY DEF Look, s3Vars, dbVars
  <1>2. wk[w].pc = "look" /\ wk[w].pc # "idle"  BY DEF Look
  <1>3. /\ wk[w].kind = "archive" /\ Archiving(wk[w]) /\ Ticketed /\ wk[w].ticket = row.ticket
        /\ wk[w] \in WkRecords /\ wk[w].plans = row.plans
    BY <1>2, WorkerKind DEF Archiving
  <1>4. PICK s \in Streams : s = wk[w].at  BY <1>3 DEF WkRecords
  <1>5. PICK have : have = IF Holds(objects[<<wk[w].ticket.attempt, s>>], wk[w].plans)
                           THEN wk[w].have \union {s} ELSE wk[w].have
    OBVIOUS
  <1>6. have \subseteq Streams /\ \A q \in have : Kept(q)
    <2>1. wk[w].have \subseteq Streams /\ \A q \in wk[w].have : Kept(q)
      BY <1>3 DEF WkRecords, Archiving
    <2> QED BY <1>3, <1>4, <1>5, <2>1, Confirmed
  <1>7. PICK after : after = IF have = Streams THEN "finish" ELSE "recapture"  OBVIOUS
  <1>8. PICK x : x = [Next1(w, "look", after) EXCEPT !.have = have]  OBVIOUS
  <1>9. wk' = [wk EXCEPT ![w] = x]  BY <1>4, <1>5, <1>7, <1>8 DEF Look
  <1>10. \/ x = [[wk[w] EXCEPT !.at = 2, !.pc = "look"] EXCEPT !.have = have]
         \/ x = [[wk[w] EXCEPT !.at = 1, !.pc = after] EXCEPT !.have = have]
    BY <1>8 DEF Next1
  <1>11. /\ x \in WkRecords /\ x.kind = "archive" /\ x.ticket = row.ticket /\ x.plans = row.plans
         /\ x.have = have /\ x.pc \in {"look", "finish", "recapture"}
         /\ x.pc = "recapture" => x.at = 1
         /\ x.pc = "finish" => have = Streams
    BY <1>3, <1>6, <1>7, <1>10, KeyFacts DEF WkRecords
  <1>12. Archiving(x)  BY <1>3, <1>6, <1>11 DEF Archiving
  <1>13. WkOK(x)  BY <1>3, <1>11, <1>12 DEF WkOK
  <1> QED BY <1>1, <1>9, <1>11, <1>13, WorkerAlone

(* The end of a stream's upload.                                           *)
LEMMA WorkerTurns ==
    ASSUME OutInv, NEW w \in Workers, wk[w].pc \in {"put", "confirm"}, Kept(wk[w].at),
           wk' = [wk EXCEPT ![w] = Next1(w, "put", "finish")],
           UNCHANGED <<now, lapsed, row, clean, arch, guest, arc, objects, puts, marks, clr,
                       faults>>
    PROVE  OutInv'
  <1>1. /\ wk[w].kind = "archive" /\ Archiving(wk[w]) /\ Ticketed /\ wk[w].ticket = row.ticket
        /\ wk[w] \in WkRecords
    BY WorkerKind
  <1>2. PICK x : x = Next1(w, "put", "finish")  OBVIOUS
  <1>3. CASE wk[w].at = 1
    <2>1. x = [wk[w] EXCEPT !.at = 2, !.pc = "put"]  BY <1>2, <1>3 DEF Next1
    <2>2. /\ x \in WkRecords /\ x.kind = "archive" /\ x.ticket = row.ticket
          /\ x.plans = wk[w].plans /\ x.have = wk[w].have /\ x.pc = "put"
      BY <1>1, <2>1, KeyFacts DEF WkRecords
    <2>3. Kept(1)  BY <1>3
    <2>4. Archiving(x)  BY <1>1, <2>2, <2>3 DEF Archiving
    <2>5. WkOK(x)  BY <1>1, <2>2, <2>4 DEF WkOK
    <2> QED BY <1>2, <2>2, <2>5, WorkerAlone
  <1>4. CASE wk[w].at = 2
    <2>1. x = [wk[w] EXCEPT !.at = 1, !.pc = "finish"]  BY <1>2, <1>4 DEF Next1
    <2>2. /\ x \in WkRecords /\ x.kind = "archive" /\ x.ticket = row.ticket
          /\ x.plans = wk[w].plans /\ x.have = wk[w].have /\ x.pc = "finish"
      BY <1>1, <2>1, KeyFacts DEF WkRecords
    <2>3. Kept(1) /\ Kept(2)  BY <1>1, <1>4 DEF Archiving
    <2>4. \A s \in Streams : Kept(s)  BY <2>3, KeyFacts
    <2>5. Archiving(x)  BY <1>1, <2>2, <2>4 DEF Archiving
    <2>6. WkOK(x)  BY <1>1, <2>2, <2>5 DEF WkOK
    <2> QED BY <1>2, <2>2, <2>6, WorkerAlone
  <1>5. wk[w].at = 1 \/ wk[w].at = 2  BY <1>1, KeyFacts DEF WkRecords
  <1> QED BY <1>3, <1>4, <1>5

(* upload: the write and the read that confirms it.                        *)
LEMMA WorkerUploads ==
    ASSUME OutInv, NEW w \in Workers, Put(w) \/ Confirm(w)
    PROVE  OutInv'
  <1>1. UNCHANGED <<now, lapsed, row, clean, arch, guest, arc, objects, marks, clr, faults>>
    BY DEF Put, Confirm, s3Vars, dbVars
  <1>2. wk[w].pc \in {"put", "confirm"} /\ wk[w].pc # "idle"  BY DEF Put, Confirm
  <1>3. /\ wk[w].kind = "archive" /\ Archiving(wk[w]) /\ Ticketed /\ wk[w].ticket = row.ticket
        /\ wk[w] \in WkRecords /\ wk[w].plans = row.plans /\ Planned
    BY <1>2, WorkerKind DEF Archiving
  <1>4. PICK s \in Streams : s = wk[w].at  BY <1>3 DEF WkRecords
  <1>5. CASE Confirm(w)
    <2>1. Kept(wk[w].at)  BY <1>3, <1>5, Confirmed DEF Confirm
    <2>2. UNCHANGED puts /\ wk' = [wk EXCEPT ![w] = Next1(w, "put", "finish")]
      BY <1>5 DEF Confirm, s3Vars
    <2> QED BY <1>1, <1>2, <2>1, <2>2, WorkerTurns
  <1>6. CASE Put(w) /\ s \in wk[w].have
    <2>1. Kept(wk[w].at)  BY <1>3, <1>4, <1>6 DEF Archiving
    <2>2. UNCHANGED puts /\ wk' = [wk EXCEPT ![w] = Next1(w, "put", "finish")]
      BY <1>4, <1>6 DEF Put
    <2> QED BY <1>1, <1>2, <2>1, <2>2, WorkerTurns
  <1>7. CASE Put(w) /\ s \notin wk[w].have
    <2>1. PICK q : q = <<wk[w].ticket.attempt, s, wk[w].plans>>  OBVIOUS
    <2>2. PICK x : x = [wk[w] EXCEPT !.pc = "confirm"]  OBVIOUS
    <2>3. puts' = puts \union {q} /\ wk' = [wk EXCEPT ![w] = x]
      BY <1>4, <1>7, <2>1, <2>2, Parts DEF Put, Typed
    <2>4. q \in Attempts \X Streams \X Digests /\ q[1] = row.ticket.attempt /\ q[3] = row.plans
      <3>1. row.ticket.attempt \in Attempts  BY <1>3, Parts DEF RowOK
      <3>2. row.plans \in Digests  BY <1>3, Parts DEF RowRecords, Plans, Planned
      <3> QED BY <1>3, <2>1, <3>1, <3>2
    <2>5. puts' \subseteq Attempts \X Streams \X Digests
      BY <2>3, <2>4, Parts DEF BucketTypes
    <2>6. Shared' /\ Grows
      BY <1>1, <2>3, <2>4, Parts, SharedSends
    <2>7. /\ x \in WkRecords /\ x.kind = "archive" /\ x.ticket = row.ticket /\ x.pc = "confirm"
          /\ x.plans = wk[w].plans /\ x.have = wk[w].have /\ x.at = wk[w].at
      BY <1>3, <2>2 DEF WkRecords
    <2>8. wk[w].pc = "put"  BY <1>7 DEF Put
    <2>9. Archiving(x)  BY <1>3, <2>7, <2>8 DEF Archiving
    <2>10. WkOK(x)  BY <1>3, <2>7, <2>9 DEF WkOK
    <2>11. WkOK(x)'  BY <2>6, <2>7, <2>10, Parts, WkStable
    <2>12. arch' \in ArchRecords  BY <1>1, Parts
    <2> QED BY <1>1, <2>3, <2>5, <2>6, <2>7, <2>11, <2>12, WorkerFrame
  <1> QED BY <1>5, <1>6, <1>7

(* output_finish.                                                          *)
LEMMA WorkerFinishes ==
    ASSUME OutInv, NEW w \in Workers, Finish(w)
    PROVE  OutInv'
  <1>1. UNCHANGED <<now, lapsed, row, clean, guest, arc, objects, puts, marks, clr, faults>>
    BY DEF Finish, s3Vars, dbVars
  <1>2. /\ wk[w].pc = "finish" /\ wk[w].pc # "idle" /\ arch.plans \in {None, wk[w].plans}
    BY DEF Finish, StillMine
  <1>3. /\ Ticketed /\ wk[w].ticket = row.ticket /\ wk[w] \in WkRecords
        /\ \/ wk[w].kind = "prepare" /\ Preparing(wk[w])
           \/ wk[w].kind = "archive" /\ Archiving(wk[w])
    BY <1>2, WorkerKind
  <1>4. PICK b : b = [arch EXCEPT !.plans = wk[w].plans]  OBVIOUS
  <1>5. PICK x : x = [wk[w] EXCEPT !.pc = "reply"]  OBVIOUS
  <1>6. arch' = b /\ wk' = [wk EXCEPT ![w] = x]  BY <1>4, <1>5, Parts DEF Finish, Typed
  <1>7. b \in ArchRecords /\ b.plans = wk[w].plans
    <2>1. arch \in ArchRecords /\ wk[w].plans \in Plans  BY <1>3, Parts DEF WkRecords
    <2> QED BY <1>4, <2>1 DEF ArchRecords
  <1>8. Shared' /\ Grows
    <2>1. arch'.plans = arch.plans \/ arch.plans = None  BY <1>2, <1>6, <1>7
    <2> QED BY <1>1, <1>3, <2>1, Parts, SharedArch
  <1>9. /\ x \in WkRecords /\ x.kind = wk[w].kind /\ x.ticket = row.ticket /\ x.pc = "reply"
        /\ x.plans = wk[w].plans /\ x.have = wk[w].have
    BY <1>3, <1>5 DEF WkRecords
  <1>10. (Ticketed /\ x.ticket = row.ticket)'  BY <1>1, <1>3, <1>9 DEF Ticketed
  <1>11. WkOK(x)'
    <2>1. CASE wk[w].kind = "prepare" /\ Preparing(wk[w])
      <3>1. Preparing(x)'  BY <1>2, <1>6, <1>7, <1>9, <2>1 DEF Preparing
      <3> QED BY <1>9, <1>10, <2>1, <3>1 DEF WkOK
    <2>2. CASE wk[w].kind = "archive" /\ Archiving(wk[w])
      <3>1. Archiving(x)  BY <1>2, <1>9, <2>2 DEF Archiving
      <3>2. WkOK(x)  BY <1>3, <1>9, <2>2, <3>1 DEF WkOK
      <3> QED BY <1>8, <1>9, <3>2, Parts, WkStable
    <2> QED BY <1>3, <2>1, <2>2
  <1>12. puts' \subseteq Attempts \X Streams \X Digests  BY <1>1, Parts DEF BucketTypes
  <1> QED BY <1>1, <1>6, <1>7, <1>8, <1>9, <1>11, <1>12, WorkerFrame

(* The answer to the archiver that waits.                                  *)
LEMMA WorkerAnswers ==
    ASSUME OutInv, NEW w \in Workers, Answered(w)
    PROVE  OutInv'
  <1>1. /\ UNCHANGED <<now, lapsed, row, clean, arch, guest, objects, puts, marks, clr, faults>>
        /\ wk' = [wk EXCEPT ![w] = IdleWorker] /\ wk[w].pc = "reply" /\ wk[w].pc # "idle"
    BY DEF Answered, s3Vars, dbVars
  <1>2. /\ wk[w] \in WkRecords
        /\ \/ wk[w].kind = "prepare" /\ Preparing(wk[w])
           \/ wk[w].kind = "archive" /\ Archiving(wk[w])
    BY <1>1, WorkerKind
  <1>3. Shared' /\ Grows  BY <1>1, Parts, SharedSame
  <1>4. \A v \in Workers : wk'[v] = IF v = w THEN IdleWorker ELSE wk[v]
    BY <1>1 DEF OutInv, Typed
  <1>5. \A v \in Workers : wk'[v] = wk[v] \/ WkOK(wk[v])'  BY <1>4, Idles DEF WkOK
  <1>6. arc' \in [Archivers -> ArcRecords]
        /\ \A b \in Archivers : arc'[b] = arc[b] \/ ArcOK(arc[b])'
    <2>1. CASE wk[w].by = None  BY <1>1, <2>1, Parts DEF Answered, Typed
    <2>2. CASE wk[w].by # None
      <3>1. PICK a \in Archivers : a = wk[w].by  BY <1>2, <2>2 DEF WkRecords
      <3>2. PICK x : x = [arc[a] EXCEPT !.plans = wk[w].plans,
                             !.pc = IF wk[w].kind = "prepare" THEN "save" ELSE "publish"]
        OBVIOUS
      <3>3. arc' = [arc EXCEPT ![a] = x]  BY <2>2, <3>1, <3>2 DEF Answered
      <3>4. /\ x \in ArcRecords /\ x.plans = wk[w].plans
            /\ x.pc = IF wk[w].kind = "prepare" THEN "save" ELSE "publish"
        <4>1. arc[a] \in ArcRecords /\ wk[w].plans \in Plans  BY <1>2, Parts DEF WkRecords
        <4> QED BY <3>2, <4>1 DEF ArcRecords
      <3>5. ArcOK(x)  BY <1>1, <1>2, <3>4 DEF ArcOK, Preparing, Archiving
      <3>6. ArcOK(x)'  BY <1>3, <3>5, Parts, ArcStable
      <3>7. \A b \in Archivers : arc'[b] = IF b = a THEN x ELSE arc[b]
        BY <3>3 DEF OutInv, Typed
      <3>8. \A b \in Archivers : arc'[b] = arc[b] \/ ArcOK(arc[b])'
        BY <3>6, <3>7 DEF ArcOK
      <3> QED BY <3>3, <3>4, <3>8, Parts DEF Typed
    <2> QED BY <2>1, <2>2
  <1>7. Typed'  BY <1>1, <1>6, Idles, Parts DEF Typed, BucketTypes
  <1> QED BY <1>1, <1>3, <1>5, <1>6, <1>7, Framed

(* A request that fails.                                                   *)
LEMMA WorkerFails ==
    ASSUME OutInv, NEW w \in Workers, RequestFails(w)
    PROVE  OutInv'
  <1>1. /\ UNCHANGED <<now, lapsed, clean, arch, guest, objects, puts, marks, clr>>
        /\ wk' = [wk EXCEPT ![w] = IdleWorker] /\ (Fault \/ NoFault)
    BY DEF RequestFails, s3Vars, dbVars
  <1>2. wk[w] \in WkRecords  BY Parts
  <1>3. /\ row' \in RowRecords /\ row'.status = row.status /\ row'.ticket = row.ticket
        /\ row'.plans = row.plans /\ row'.refs = row.refs /\ row'.compacted = row.compacted
        /\ Expired => ~row'.lease
    BY Defers, Parts DEF RequestFails
  <1>4. Shared' /\ Grows  BY <1>1, <1>3, Parts, SharedSame
  <1>5. \A v \in Workers : wk'[v] = IF v = w THEN IdleWorker ELSE wk[v]
    BY <1>1 DEF OutInv, Typed
  <1>6. \A v \in Workers : wk'[v] = wk[v] \/ WkOK(wk[v])'  BY <1>5, Idles DEF WkOK
  <1>7. arc' \in [Archivers -> ArcRecords]
        /\ \A b \in Archivers : arc'[b] = arc[b] \/ ArcOK(arc[b])'
    <2>1. CASE wk[w].by = None  BY <2>1, Parts DEF RequestFails, Typed
    <2>2. CASE wk[w].by # None
      <3>1. PICK a \in Archivers : a = wk[w].by  BY <1>2, <2>2 DEF WkRecords
      <3>2. arc' = [arc EXCEPT ![a] = IdleArchiver]  BY <2>2, <3>1 DEF RequestFails
      <3>3. \A b \in Archivers : arc'[b] = IF b = a THEN IdleArchiver ELSE arc[b]
        BY <3>2 DEF OutInv, Typed
      <3>4. \A b \in Archivers : arc'[b] = arc[b] \/ ArcOK(arc[b])'
        BY <3>3, Idles DEF ArcOK
      <3> QED BY <3>2, <3>4, Idles, Parts DEF Typed
    <2> QED BY <2>1, <2>2
  <1>8. faults' \in 0..MaxFaults  BY <1>1, FaultTyped
  <1>9. Typed'  BY <1>1, <1>3, <1>7, <1>8, Idles, Parts DEF Typed, BucketTypes
  <1> QED BY <1>1, <1>4, <1>6, <1>7, <1>9, Framed
-----------------------------------------------------------------------------
(* The bucket, the cleaners and the rows.                                  *)

(* A step of one cleaner, given what it leaves the cleaner with.           *)
LEMMA CleanerFrame ==
    ASSUME OutInv, NEW k \in Cleaners, NEW x \in ClrRecords, clr' = [clr EXCEPT ![k] = x],
           UNCHANGED <<now, lapsed, arch, guest, arc, wk, puts>>,
           row' \in RowRecords, clean' \in CleanRecords, faults' \in 0..MaxFaults,
           objects' \in [Keys -> ObjectRecords],
           marks' \subseteq Attempts \X Streams \X {"create", "update"},
           Shared', Grows, ClrOK(x)'
    PROVE  OutInv'
  <1>1. \A j \in Cleaners : clr'[j] = IF j = k THEN x ELSE clr[j]  BY DEF OutInv, Typed
  <1>2. \A j \in Cleaners : clr'[j] = clr[j] \/ ClrOK(clr[j])'  BY <1>1 DEF ClrOK
  <1>3. Typed'  BY Parts DEF Typed, BucketTypes
  <1> QED BY <1>2, <1>3, Framed

(* The key a cleaner works on.                                             *)
LEMMA CleanerKey ==
    ASSUME OutInv, NEW k \in Cleaners, clr[k].pc \in Retiring
    PROVE  /\ KeyOf(k) = <<row.ticket.attempt, clr[k].at>> /\ KeyOf(k) \in Keys
           /\ KeyOf(k)[1] = row.ticket.attempt /\ KeyOf(k)[2] = clr[k].at
           /\ row.ticket.attempt \in Attempts /\ clr[k].at \in Streams
           /\ clr[k] \in ClrRecords /\ ClrOK(clr[k]) /\ Planned /\ Expired
           /\ clean.manifest = Inventory /\ clean.queued
  <1>1. /\ clr[k] \in ClrRecords /\ ClrOK(clr[k]) /\ Planned /\ Expired
        /\ clean.manifest = Inventory /\ clean.queued
    BY Parts DEF ClrOK, Retiring
  <1>2. Ticketed /\ row.ticket.attempt \in Attempts  BY <1>1, Parts DEF CleanOK, RowOK
  <1>3. clean.manifest.ticket = row.ticket  BY <1>1 DEF Inventory
  <1>4. clr[k].at \in Streams  BY <1>1 DEF ClrRecords
  <1>5. KeyOf(k) = <<row.ticket.attempt, clr[k].at>>  BY <1>3 DEF KeyOf
  <1> QED BY <1>1, <1>2, <1>4, <1>5, KeyFacts

(* A step of the retirement of one stream.                                 *)
LEMMA CleanerMoves ==
    ASSUME OutInv, NEW k \in Cleaners, Inspect(k) \/ Mark(k) \/ Marked(k)
    PROVE  OutInv'
  <1>1. /\ UNCHANGED <<now, lapsed, row, clean, arch, guest, arc, wk, objects, puts, faults>>
        /\ clr[k].pc \in {"look", "mark", "marked"} /\ clr[k].pc \in Retiring
    BY DEF Inspect, Mark, Marked, s3Vars, dbVars, Retiring
  <1>2. /\ clr[k] \in ClrRecords /\ ClrOK(clr[k]) /\ Expired /\ clr[k].at \in Streams
        /\ KeyOf(k)[1] = row.ticket.attempt /\ KeyOf(k)[2] = clr[k].at
        /\ row.ticket.attempt \in Attempts
    BY <1>1, CleanerKey
  <1>3. PICK x : x = clr'[k]  OBVIOUS
  <1>4. /\ clr' = [clr EXCEPT ![k] = x] /\ x \in ClrRecords
        /\ x.pc \in {"mark", "marked", "remove"} /\ x.at = clr[k].at
    <2>1. clr \in [Cleaners -> ClrRecords]  BY Parts DEF Typed
    <2>2. CASE Inspect(k)
      <3>1. PICK pc, mode : /\ pc \in {"remove", "mark"} /\ mode \in {"create", "update"}
                            /\ clr' = [clr EXCEPT ![k] = [@ EXCEPT !.pc = pc, !.mode = mode]]
        BY <2>2 DEF Inspect
      <3>2. x = [clr[k] EXCEPT !.pc = pc, !.mode = mode]  BY <1>3, <2>1, <3>1
      <3> QED BY <1>2, <2>1, <3>1, <3>2 DEF ClrRecords
    <2>3. CASE Mark(k) \/ Marked(k)
      <3>1. PICK pc \in {"marked", "remove"} : clr' = [clr EXCEPT ![k].pc = pc]
        BY <2>3 DEF Mark, Marked
      <3>2. x = [clr[k] EXCEPT !.pc = pc]  BY <1>3, <2>1, <3>1
      <3> QED BY <1>2, <2>1, <3>1, <3>2 DEF ClrRecords
    <2> QED BY <2>2, <2>3
  <1>5. ClrOK(x)
    <2>1. x.pc \in Retiring /\ x.pc # "complete"  BY <1>4 DEF Retiring
    <2> QED BY <1>1, <1>2, <1>4, <2>1 DEF ClrOK, Retiring
  <1>6. /\ marks' \subseteq Attempts \X Streams \X {"create", "update"}
        /\ \A m \in marks' : m \in marks \/ m[1] = row.ticket.attempt
    <2>1. marks \subseteq Attempts \X Streams \X {"create", "update"}  BY Parts DEF BucketTypes
    <2>2. CASE UNCHANGED marks  BY <2>1, <2>2
    <2>3. CASE Mark(k)
      <3>1. PICK m : m = <<row.ticket.attempt, clr[k].at, clr[k].mode>>  OBVIOUS
      <3>2. marks' = marks \union {m}  BY <1>2, <2>3, <3>1 DEF Mark
      <3>3. clr[k].mode \in {"create", "update"}  BY <1>2 DEF ClrRecords
      <3>4. m \in Attempts \X Streams \X {"create", "update"} /\ m[1] = row.ticket.attempt
        BY <1>2, <3>1, <3>3
      <3> QED BY <2>1, <3>2, <3>4
    <2> QED BY <2>2, <2>3 DEF Inspect, Marked, s3Vars
  <1>7. Shared' /\ Grows  BY <1>1, <1>2, <1>6, Parts, SharedSends
  <1>8. ClrOK(x)'  BY <1>5, <1>7, Parts, ClrStable
  <1>9. /\ row' \in RowRecords /\ clean' \in CleanRecords /\ objects' \in [Keys -> ObjectRecords]
        /\ faults' \in 0..MaxFaults
    BY <1>1, Parts DEF Typed, BucketTypes
  <1> QED BY <1>1, <1>4, <1>6, <1>7, <1>8, <1>9, CleanerFrame

(* remove_previous, the end of a stream's retirement.                      *)
LEMMA CleanerRemoves ==
    ASSUME OutInv, NEW k \in Cleaners, RemovePrevious(k)
    PROVE  OutInv'
  <1>1. /\ UNCHANGED <<now, lapsed, row, clean, arch, guest, arc, wk, puts, marks, faults>>
        /\ clr[k].pc = "remove" /\ clr[k].pc \in Retiring /\ objects[KeyOf(k)].cur = "marker"
    BY DEF RemovePrevious, s3Vars, dbVars, Retiring
  <1>2. PICK key \in Keys : /\ key = KeyOf(k) /\ key = <<row.ticket.attempt, clr[k].at>>
                            /\ key[1] = row.ticket.attempt
    BY <1>1, CleanerKey
  <1>3. /\ clr[k] \in ClrRecords /\ ClrOK(clr[k]) /\ Expired /\ Planned /\ clr[k].at \in Streams
        /\ clean.manifest = Inventory /\ clean.queued
    BY <1>1, CleanerKey
  <1>4. PICK o : o = [objects[key] EXCEPT !.old = FALSE]  OBVIOUS
  <1>5. objects \in [Keys -> ObjectRecords]  BY Parts DEF BucketTypes
  <1>6. objects' = [objects EXCEPT ![key] = o]  BY <1>2, <1>4, <1>5 DEF RemovePrevious
  <1>7. o \in ObjectRecords /\ o.cur = "marker" /\ ~o.old
    BY <1>1, <1>2, <1>4, <1>5 DEF ObjectRecords
  <1>8. Shared' /\ Grows
    <2>1. ObjectOK(key[1], o)  BY <1>2, <1>7 DEF ObjectOK
    <2> QED BY <1>1, <1>3, <1>6, <1>7, <2>1, Parts, SharedObject
  <1>9. PICK s : s = clr[k].at /\ Buried(s)'
    <2>1. PICK s : s = clr[k].at  OBVIOUS
    <2>2. objects'[key] = o  BY <1>5, <1>6
    <2>3. Buried(s)'  BY <1>1, <1>2, <1>7, <2>1, <2>2 DEF Buried
    <2> QED BY <2>1, <2>3
  <1>10. PICK x : x = [clr[k] EXCEPT !.at = IF clr[k].at = 1 THEN 2 ELSE 1,
                                     !.pc = IF clr[k].at = 1 THEN "look" ELSE "complete"]
    OBVIOUS
  <1>11. clr' = [clr EXCEPT ![k] = x]  BY <1>10 DEF RemovePrevious
  <1>12. x \in ClrRecords /\ x.pc = (IF clr[k].at = 1 THEN "look" ELSE "complete")
    BY <1>3, <1>10, KeyFacts DEF ClrRecords
  <1>13. (clean.manifest = Inventory /\ Expired /\ clean.queued /\ Planned)'
    BY <1>1, <1>3 DEF Inventory, Expired, Planned
  <1>14. ClrOK(x)'
    <2>1. CASE clr[k].at = 1
      <3>1. x.pc = "look" /\ Buried(1)'  BY <1>9, <1>12, <2>1
      <3> QED BY <1>13, <3>1 DEF ClrOK
    <2>2. CASE clr[k].at = 2
      <3>1. x.pc = "complete" /\ Buried(2)'  BY <1>9, <1>12, <2>2
      <3>2. Ticketed /\ Buried(1)  BY <1>1, <1>3, <2>2, Parts DEF ClrOK, CleanOK
      <3>3. Buried(1)'  BY <1>8, <3>2, KeyFacts DEF Grows
      <3>4. \A t \in Streams : Buried(t)'  BY <3>1, <3>3, KeyFacts
      <3> QED BY <1>13, <3>1, <3>4 DEF ClrOK, Retiring
    <2> QED BY <1>3, <2>1, <2>2, KeyFacts
  <1>15. /\ row' \in RowRecords /\ clean' \in CleanRecords /\ objects' \in [Keys -> ObjectRecords]
         /\ faults' \in 0..MaxFaults
         /\ marks' \subseteq Attempts \X Streams \X {"create", "update"}
    BY <1>1, <1>5, <1>6, <1>7, Parts DEF Typed, BucketTypes
  <1> QED BY <1>1, <1>8, <1>11, <1>12, <1>14, <1>15, CleanerFrame

(* A claim of the cleanup, and its end.                                    *)
LEMMA CleanerClaims ==
    ASSUME OutInv, NEW k \in Cleaners,
           ClaimCleanup(k) \/ CompleteCleanup(k) \/ CleanerFails(k) \/ CleanerDies(k)
    PROVE  OutInv'
  <1>1. UNCHANGED <<now, lapsed, row, arch, guest, arc, wk, objects, puts, marks>>
    BY DEF ClaimCleanup, CompleteCleanup, CleanerFails, CleanerDies, s3Vars, dbVars
  <1>2. /\ clean \in CleanRecords /\ CleanOK /\ ClrOK(clr[k]) /\ clr[k] \in ClrRecords
    BY Parts
  <1>3. /\ row' \in RowRecords /\ objects' \in [Keys -> ObjectRecords]
        /\ marks' \subseteq Attempts \X Streams \X {"create", "update"}
    BY <1>1, Parts DEF BucketTypes
  <1>4. faults' \in 0..MaxFaults
    BY FaultTyped DEF ClaimCleanup, CompleteCleanup, CleanerFails, CleanerDies, NoFault
  <1>5. CASE ClaimCleanup(k)
    <2>1. PICK n \in Nat : n = clean.rev + 1  BY <1>2 DEF CleanRecords
    <2>2. PICK c : c = [clean EXCEPT !.rev = n, !.lease = TRUE]  OBVIOUS
    <2>3. PICK x : x = [IdleCleaner EXCEPT !.pc = "prepare", !.rev = n]  OBVIOUS
    <2>4. clean' = c /\ clr' = [clr EXCEPT ![k] = x] /\ clean.queued
      BY <1>5, <2>1, <2>2, <2>3 DEF ClaimCleanup
    <2>5. /\ c \in CleanRecords /\ c.queued = clean.queued /\ c.manifest = clean.manifest
          /\ c.done = clean.done
      BY <1>2, <2>1, <2>2 DEF CleanRecords
    <2>6. x \in ClrRecords /\ x.pc = "prepare" /\ x.at = 1
      BY <2>1, <2>3, Idles DEF ClrRecords
    <2>7. Shared' /\ Grows  BY <1>1, <2>4, <2>5, Parts, SharedSame
    <2>8. ClrOK(x)'  BY <2>4, <2>5, <2>6 DEF ClrOK, Retiring
    <2> QED BY <1>1, <1>3, <1>4, <2>4, <2>5, <2>6, <2>7, <2>8, CleanerFrame
  <1>6. ClrOK(IdleCleaner)'  BY Idles DEF ClrOK, Retiring
  <1>7. CASE CompleteCleanup(k)
    <2>1. PICK c : c = [clean EXCEPT !.done = TRUE, !.lease = FALSE]  OBVIOUS
    <2>2. clean' = c /\ clr' = [clr EXCEPT ![k] = IdleCleaner] /\ clr[k].pc = "complete"
      BY <1>7, <2>1 DEF CompleteCleanup
    <2>3. /\ c \in CleanRecords /\ c.queued = clean.queued /\ c.manifest = clean.manifest
      BY <1>2, <2>1 DEF CleanRecords
    <2>4. Expired /\ (~Planned \/ \A s \in Streams : Buried(s)) /\ (clean.queued => Ticketed)
      BY <1>2, <2>2 DEF ClrOK, CleanOK
    <2>5. Shared' /\ Grows  BY <1>1, <2>2, <2>3, <2>4, Parts, SharedClean
    <2> QED BY <1>1, <1>3, <1>4, <1>6, <2>2, <2>3, <2>5, Idles, CleanerFrame
  <1>8. CASE CleanerFails(k) \/ CleanerDies(k)
    <2>1. clr' = [clr EXCEPT ![k] = IdleCleaner]  BY <1>8 DEF CleanerFails, CleanerDies
    <2>2. clean' = clean \/ clean' = [clean EXCEPT !.lease = FALSE]
      BY <1>8 DEF CleanerFails, CleanerDies, dbVars
    <2>3. /\ clean' \in CleanRecords /\ clean'.queued = clean.queued
          /\ clean'.manifest = clean.manifest /\ clean'.done = clean.done
      BY <1>2, <2>2 DEF CleanRecords
    <2>4. Shared' /\ Grows  BY <1>1, <2>3, Parts, SharedSame
    <2> QED BY <1>1, <1>3, <1>4, <1>6, <2>1, <2>3, <2>4, Idles, CleanerFrame
  <1> QED BY <1>5, <1>7, <1>8

(* prepare_output_cleanup: the row expires and its inventory is frozen.    *)
LEMMA CleanerPrepares ==
    ASSUME OutInv, NEW k \in Cleaners, PrepareCleanup(k)
    PROVE  OutInv'
  <1>1. UNCHANGED <<now, lapsed, arch, guest, arc, wk, objects, puts, marks, faults>>
    BY DEF PrepareCleanup, s3Vars
  <1>2. /\ row \in RowRecords /\ clean \in CleanRecords /\ clr[k] \in ClrRecords
        /\ clr[k].pc = "prepare" /\ clr[k].at = 1 /\ clean.queued
    BY Parts DEF PrepareCleanup, ClrOK
  <1>3. PICK n \in Nat : n = IF row.status # "expired" \/ row.lease THEN row.rev + 1 ELSE row.rev
    BY <1>2 DEF RowRecords
  <1>4. PICK r : r = [row EXCEPT !.status = "expired", !.lease = FALSE, !.rev = n]
    OBVIOUS
  <1>5. PICK waiting \in BOOLEAN : waiting = (DeleteAfter(row.ticket) > now)
    <2>1. row.ticket.expires \in Nat /\ now \in Nat /\ Grace \in Nat
      BY <1>2, Parts, OutputsAssumption DEF RowRecords, Tickets, Typed
    <2>2. (DeleteAfter(row.ticket) > now) \in BOOLEAN  BY <2>1 DEF DeleteAfter
    <2> QED BY <2>2, Zenon
  <1>6. PICK c : c = [clean EXCEPT !.manifest = Inventory, !.lease = ~waiting]  OBVIOUS
  <1>7. PICK x : x = IF waiting THEN IdleCleaner
                     ELSE [clr[k] EXCEPT !.pc = IF row.plans = None THEN "complete" ELSE "look"]
    OBVIOUS
  <1>8. row' = r /\ clean' = c /\ clr' = [clr EXCEPT ![k] = x]
    BY <1>4, <1>5, <1>6, <1>7, <1>3 DEF PrepareCleanup
  <1>9. /\ r \in RowRecords /\ r.status = "expired" /\ ~r.lease /\ r.ticket = row.ticket
        /\ r.plans = row.plans /\ r.refs = row.refs
    BY <1>2, <1>4 DEF RowRecords
  <1>10. Inventory \in Manifests /\ Inventory' = Inventory
    BY <1>2, <1>8, <1>9 DEF Inventory, Manifests, RowRecords
  <1>11. /\ c \in CleanRecords /\ c.queued = clean.queued /\ c.done = clean.done
         /\ c.manifest = Inventory
    <2>1. (~waiting) \in BOOLEAN  BY <1>5
    <2> QED BY <1>2, <1>6, <1>10, <2>1 DEF CleanRecords
  <1>12. /\ x \in ClrRecords /\ x.pc \in {"idle", "complete", "look"}
         /\ x.pc = "look" => x.at = 1 /\ row.plans # None
         /\ x.pc = "complete" => row.plans = None
    BY <1>2, <1>7, Idles DEF ClrRecords
  <1>13. Shared' /\ Grows  BY <1>1, <1>8, <1>9, <1>11, Parts, SharedExpires
  <1>14. ClrOK(x)'
    <2>1. (clean.manifest = Inventory /\ Expired /\ clean.queued)'
      BY <1>2, <1>8, <1>9, <1>10, <1>11 DEF Expired
    <2>2. Planned' <=> row.plans # None  BY <1>8, <1>9 DEF Planned
    <2> QED BY <1>12, <2>1, <2>2 DEF ClrOK, Retiring
  <1>15. /\ objects' \in [Keys -> ObjectRecords] /\ faults' \in 0..MaxFaults
         /\ marks' \subseteq Attempts \X Streams \X {"create", "update"}
    BY <1>1, Parts DEF Typed, BucketTypes
  <1> QED BY <1>1, <1>8, <1>9, <1>11, <1>12, <1>13, <1>14, <1>15, CleanerFrame

(* A write that lands, whenever the bucket applies it.                     *)
LEMMA BucketLands ==
    ASSUME OutInv, BucketStep
    PROVE  OutInv'
  <1>1. UNCHANGED <<now, lapsed, row, clean, arch, guest, arc, wk, puts, marks, clr, faults>>
    BY DEF BucketStep, PutLands, MarkLands, dbVars
  <1>2. objects \in [Keys -> ObjectRecords] /\ BucketOK /\ BucketTypes
    BY Parts DEF BucketTypes
  <1>3. \E key \in Keys, o \in ObjectRecords :
            /\ objects' = [objects EXCEPT ![key] = o] /\ ObjectOK(key[1], o)
            /\ objects[key].cur # "marker"
            /\ Expired \/ objects[key].cur # "data"
    <2>1. CASE \E q \in puts : PutLands(q)
      <3>1. PICK q \in puts : PutLands(q)  BY <2>1
      <3>2. q[1] \in Attempts /\ q[2] \in Streams /\ q[3] \in Digests
        BY <1>2, WriteFacts DEF BucketTypes
      <3>3. q[1] = row.ticket.attempt /\ q[3] = row.plans /\ Planned
        BY <1>2, <3>2, OutputsAssumption DEF BucketOK, Planned
      <3>4. PICK key : key = <<q[1], q[2]>>  OBVIOUS
      <3>5. key \in Keys /\ key[1] = q[1]  BY <3>2, <3>4, KeyFacts
      <3>6. PICK o : o = [NoObject EXCEPT !.cur = "data", !.digest = q[3]]  OBVIOUS
      <3>7. objects' = [objects EXCEPT ![key] = o] /\ objects[key].cur = "none"
        BY <3>1, <3>4, <3>6 DEF PutLands
      <3>8. o \in ObjectRecords /\ o.cur = "data" /\ o.digest = q[3] /\ ~o.old
        BY <3>2, <3>6 DEF ObjectRecords, NoObject, Plans
      <3>9. ObjectOK(key[1], o)  BY <3>3, <3>5, <3>8 DEF ObjectOK
      <3> QED BY <3>5, <3>7, <3>8, <3>9
    <2>2. CASE \E m \in marks : MarkLands(m)
      <3>1. PICK m \in marks : MarkLands(m)  BY <2>2
      <3>2. m[1] \in Attempts /\ m[2] \in Streams /\ m[1] = row.ticket.attempt /\ Expired
        BY <1>2, WriteFacts DEF BucketTypes, BucketOK
      <3>3. PICK key : key = <<m[1], m[2]>>  OBVIOUS
      <3>4. key \in Keys /\ key[1] = m[1]  BY <3>2, <3>3, KeyFacts
      <3>5. PICK old : old = (Versioned /\ m[3] = "update")  OBVIOUS
      <3>6. old \in BOOLEAN /\ (old => m[3] # "create")  BY <3>5, OutputsAssumption
      <3>7. PICK o : o = [cur |-> "marker", digest |-> None, old |-> old]  OBVIOUS
      <3>8. /\ objects' = [objects EXCEPT ![key] = o]
            /\ objects[key].cur = IF m[3] = "create" THEN "none" ELSE "data"
        BY <3>1, <3>3, <3>5, <3>7 DEF MarkLands
      <3>9. o \in ObjectRecords /\ o.cur = "marker" /\ o.old = old
        BY <3>6, <3>7 DEF ObjectRecords, Plans
      <3>10. old => Planned
        <4>1. ObjectOK(key[1], objects[key])  BY <1>2, <3>4 DEF BucketOK
        <4> QED BY <3>6, <3>8, <4>1 DEF ObjectOK
      <3>11. ObjectOK(key[1], o)  BY <3>2, <3>4, <3>9, <3>10 DEF ObjectOK
      <3>12. objects[key].cur # "marker"  BY <3>8
      <3> QED BY <3>2, <3>4, <3>8, <3>9, <3>11, <3>12
    <2> QED BY <2>1, <2>2 DEF BucketStep
  <1>4. PICK key \in Keys, o \in ObjectRecords :
            /\ objects' = [objects EXCEPT ![key] = o] /\ ObjectOK(key[1], o)
            /\ objects[key].cur # "marker"
            /\ Expired \/ objects[key].cur # "data"
    BY <1>3
  <1>5. Shared' /\ Grows  BY <1>1, <1>4, Parts, SharedObject
  <1>6. objects' \in [Keys -> ObjectRecords]  BY <1>2, <1>4
  <1>7. Typed'  BY <1>1, <1>6, Parts DEF Typed, BucketTypes
  <1> QED BY <1>1, <1>5, <1>7, Framed

(* Retention, compaction and the queue of expired rows.                    *)
LEMMA RowMoves ==
    ASSUME OutInv, RowStep
    PROVE  OutInv'
  <1>1. UNCHANGED <<now, lapsed, arch, guest, arc, wk, objects, puts, marks, clr, faults>>
    BY DEF RowStep, AssignRetention, CompactExpired, EnqueueExpired, s3Vars
  <1>2. row \in RowRecords /\ clean \in CleanRecords  BY Parts
  <1>3. row' \in RowRecords /\ clean' \in CleanRecords /\ Shared' /\ Grows
    <2>1. CASE \E t \in Policies : AssignRetention(t)
      <3>1. PICK t \in Policies : AssignRetention(t)  BY <2>1
      <3>2. row' = [row EXCEPT !.response = t] /\ UNCHANGED clean  BY <3>1 DEF AssignRetention
      <3>3. /\ row' \in RowRecords /\ row'.status = row.status /\ row'.ticket = row.ticket
            /\ row'.plans = row.plans /\ row'.refs = row.refs /\ row'.compacted = row.compacted
            /\ row'.lease = row.lease
        BY <1>2, <3>2 DEF RowRecords
      <3> QED BY <1>1, <1>2, <3>2, <3>3, Parts, SharedSame
    <2>2. CASE CompactExpired
      <3>1. PICK n \in Nat : n = IF row.status = "pending" THEN row.rev + 1 ELSE row.rev
        BY <1>2 DEF RowRecords
      <3>2. row' = [row EXCEPT !.compacted = TRUE, !.status = "expired", !.lease = FALSE,
                               !.rev = n]
            /\ UNCHANGED clean
        BY <2>2, <3>1 DEF CompactExpired
      <3>3. /\ row' \in RowRecords /\ row'.status = "expired" /\ row'.ticket = row.ticket
            /\ row'.plans = row.plans /\ row'.refs = row.refs /\ ~row'.lease
        BY <1>2, <3>2 DEF RowRecords
      <3> QED BY <1>1, <1>2, <3>2, <3>3, Parts, SharedExpires
    <2>3. CASE EnqueueExpired
      <3>1. clean' = [clean EXCEPT !.queued = TRUE] /\ UNCHANGED row /\ Ticketed
        BY <2>3 DEF EnqueueExpired, Ticketed
      <3>2. /\ clean' \in CleanRecords /\ clean'.manifest = clean.manifest /\ clean'.queued
            /\ clean'.done = clean.done
        BY <1>2, <3>1 DEF CleanRecords
      <3>3. clean'.done => Expired /\ (~Planned \/ \A s \in Streams : Buried(s))
        BY <3>2, Parts DEF CleanOK
      <3> QED BY <1>1, <1>2, <3>1, <3>2, <3>3, Parts, SharedClean
    <2> QED BY <2>1, <2>2, <2>3 DEF RowStep
  <1>4. Typed'  BY <1>1, <1>3, Parts DEF Typed, BucketTypes
  <1> QED BY <1>1, <1>3, <1>4, Framed

(* Time, lapsing claims and the end of the machine.                        *)
LEMMA TimePasses ==
    ASSUME OutInv, GuestGone \/ Tick \/ ClaimLapses \/ CleanupLapses \/ UNCHANGED vars
    PROVE  OutInv'
  <1>1. UNCHANGED <<arch, arc, wk, objects, puts, marks, clr>>
    BY DEF GuestGone, Tick, ClaimLapses, CleanupLapses, s3Vars, dbVars, vars
  <1>2. /\ row \in RowRecords /\ clean \in CleanRecords /\ guest \in BOOLEAN
        /\ now \in 0..MaxNow /\ lapsed \in 0..MaxClaims /\ (Expired => ~row.lease)
    BY Parts DEF Typed
  <1>3. row' = row \/ row' = [row EXCEPT !.lease = FALSE]
    BY DEF GuestGone, Tick, ClaimLapses, CleanupLapses, s3Vars, dbVars, vars
  <1>4. clean' = clean \/ clean' = [clean EXCEPT !.lease = FALSE]
    BY DEF GuestGone, Tick, ClaimLapses, CleanupLapses, s3Vars, dbVars, vars
  <1>5. /\ row' \in RowRecords /\ row'.status = row.status /\ row'.ticket = row.ticket
        /\ row'.plans = row.plans /\ row'.refs = row.refs /\ row'.compacted = row.compacted
        /\ Expired => ~row'.lease
    BY <1>2, <1>3 DEF RowRecords
  <1>6. /\ clean' \in CleanRecords /\ clean'.queued = clean.queued
        /\ clean'.manifest = clean.manifest /\ clean'.done = clean.done
    BY <1>2, <1>4 DEF CleanRecords
  <1>7. Shared' /\ Grows  BY <1>1, <1>5, <1>6, Parts, SharedSame
  <1>8. faults' \in 0..MaxFaults
    BY FaultTyped DEF GuestGone, Tick, ClaimLapses, CleanupLapses, NoFault, vars
  <1>9. guest' \in BOOLEAN
    BY <1>2 DEF GuestGone, Tick, ClaimLapses, CleanupLapses, vars
  <1>10. now' \in 0..MaxNow
    <2>1. MaxNow \in Nat  BY OutputsAssumption DEF MaxNow
    <2>2. CASE Tick  BY <1>2, <2>1, <2>2 DEF Tick
    <2>3. CASE ~Tick  BY <1>2, <2>3 DEF GuestGone, ClaimLapses, CleanupLapses, vars
    <2> QED BY <2>2, <2>3
  <1>11. lapsed' \in 0..MaxClaims
    <2>1. CASE ClaimLapses  BY <1>2, <2>1, OutputsAssumption DEF ClaimLapses
    <2>2. CASE ~ClaimLapses  BY <1>2, <2>2 DEF GuestGone, Tick, CleanupLapses, dbVars, vars
    <2> QED BY <2>1, <2>2
  <1>12. Typed'
    BY <1>1, <1>5, <1>6, <1>8, <1>9, <1>10, <1>11, Parts DEF Typed, BucketTypes
  <1> QED BY <1>1, <1>7, <1>12, Framed
-----------------------------------------------------------------------------
(* The theorems.                                                           *)

(* Every step keeps the invariant.                                         *)
LEMMA OutputStep ==
    ASSUME OutInv, [Next]_vars
    PROVE  OutInv'
  <1>1. CASE \E a \in Archivers : ArchiverStep(a)
    BY <1>1, ArchiverClaims, ArchiverPrepares, ArchiverSaves, ArchiverPublishes, ArchiverEnds,
       ArchiverSends DEF ArchiverStep
  <1>2. CASE \E w \in Workers : HostStep(w)
    BY <1>2, WorkerSets, WorkerLooks, WorkerUploads, WorkerFinishes, WorkerAnswers, WorkerFails,
       WorkerCollects DEF HostStep
  <1>3. CASE \E k \in Cleaners : CleanerStep(k)
    BY <1>3, CleanerClaims, CleanerPrepares, CleanerMoves, CleanerRemoves DEF CleanerStep
  <1>4. CASE BucketStep  BY <1>4, BucketLands
  <1>5. CASE RowStep  BY <1>5, RowMoves
  <1>6. CASE GuestGone \/ Tick \/ ClaimLapses \/ CleanupLapses \/ UNCHANGED vars
    BY <1>6, TimePasses
  <1> QED BY <1>1, <1>2, <1>3, <1>4, <1>5, <1>6 DEF Next

(* A command that just completed satisfies the invariant.                  *)
LEMMA OutputInitially ==
    ASSUME Init
    PROVE  OutInv
  <1>1. /\ row.status = "pending" /\ row.ticket = NoTicket /\ row.plans = None
        /\ row.compacted = FALSE /\ clean.queued = FALSE /\ clean.manifest = None
        /\ clean.done = FALSE /\ arch.plans = None /\ puts = {} /\ marks = {}
    BY DEF Init
  <1>2. ~Expired /\ ~Ticketed /\ ~Planned  BY <1>1 DEF Expired, Ticketed, Planned
  <1>3. NoObject \in ObjectRecords /\ NoObject.cur = "none" /\ ~NoObject.old
    BY DEF NoObject, ObjectRecords, Plans
  <1>4. RowOK /\ CleanOK  BY <1>1, <1>2 DEF RowOK, CleanOK
  <1>5. BucketOK
    <2>1. ASSUME NEW key \in Keys PROVE ObjectOK(key[1], objects[key])
      <3>1. objects[key] = NoObject  BY DEF Init
      <3> QED BY <1>3, <3>1 DEF ObjectOK
    <2> QED BY <1>1, <2>1 DEF BucketOK
  <1>6. Processes
    <2>1. /\ \A a \in Archivers : arc[a] = IdleArchiver
          /\ \A w \in Workers : wk[w] = IdleWorker
          /\ \A k \in Cleaners : clr[k] = IdleCleaner
      BY DEF Init
    <2> QED BY <2>1, Idles DEF Processes, ArcOK, WkOK, ClrOK, Retiring
  <1>7. Typed
    <2>1. now \in 0..MaxNow /\ lapsed \in 0..MaxClaims /\ faults \in 0..MaxFaults
      BY OutputsAssumption DEF Init, MaxNow
    <2>2. guest \in BOOLEAN  BY DEF Init
    <2>3. row \in RowRecords  BY KeyFacts DEF Init, RowRecords, Open, Plans
    <2>4. clean \in CleanRecords  BY DEF Init, CleanRecords
    <2>5. arch \in ArchRecords
      <3>1. 0 \in 0..MaxClaims  BY OutputsAssumption
      <3> QED BY <3>1, KeyFacts DEF Init, ArchRecords, Plans
    <2>6. BucketTypes  BY <1>1, <1>3 DEF Init, BucketTypes
    <2>7. /\ arc \in [Archivers -> ArcRecords] /\ wk \in [Workers -> WkRecords]
          /\ clr \in [Cleaners -> ClrRecords]
      BY Idles DEF Init
    <2> QED BY <2>1, <2>2, <2>3, <2>4, <2>5, <2>6, <2>7 DEF Typed
  <1> QED BY <1>4, <1>5, <1>6, <1>7 DEF OutInv, Shared

(* The inductive invariant holds in every reachable state.                 *)
THEOREM OutputInvariant == Spec => []OutInv
  BY OutputInitially, OutputStep, PTL DEF Spec

(* Every variable keeps its type.                                          *)
THEOREM OutputTypeCorrect == Spec => []TypeOK
  <1>1. OutInv => TypeOK
    <2> SUFFICES ASSUME OutInv PROVE TypeOK  OBVIOUS
    <2>1. Typed  BY DEF OutInv
    <2>2. /\ clean.queued \in BOOLEAN /\ clean.lease \in BOOLEAN /\ clean.done \in BOOLEAN
          /\ guest \in BOOLEAN
          /\ clean.manifest = None \/ clean.manifest.ticket \in Tickets
      BY <2>1 DEF Typed, CleanRecords, Manifests
    <2>3. {clean.queued, clean.lease, clean.done, guest} \subseteq BOOLEAN  BY <2>2
    <2>4. \A a \in Archivers : arc[a].pc \in
              {"idle", "claimed", "prepare", "archive", "wait", "save", "publish"}
      BY <2>1 DEF Typed, ArcRecords
    <2>5. \A w \in Workers :
              /\ wk[w].by \in Archivers \union {None} /\ wk[w].have \subseteq Streams
              /\ wk[w].pc \in {"idle", "sent", "collect", "look", "recapture", "put", "confirm",
                               "finish", "reply"}
      BY <2>1 DEF Typed, WkRecords
    <2>6. \A k \in Cleaners : clr[k].pc \in
              {"idle", "prepare", "look", "mark", "marked", "remove", "complete"}
      BY <2>1 DEF Typed, ClrRecords
    <2> QED BY <2>1, <2>2, <2>3, <2>4, <2>5, <2>6 DEF TypeOK, Typed, BucketTypes, RowRecords,
        ArchRecords, ObjectRecords, Plans
  <1> QED BY <1>1, OutputInvariant, PTL

(* While references are served, the objects they name are there and hold   *)
(* the plan, for any number of archivers, claims and late writes.          *)
THEOREM PublishedStaysReadable == Spec => []PublishedIsReadable
  <1>1. OutInv => PublishedIsReadable
    BY DEF OutInv, Shared, RowOK, Kept, Expired, Readable, PublishedIsReadable
  <1> QED BY <1>1, OutputInvariant, PTL

(* A completed cleanup is final: no bytes are left in any version, and no  *)
(* write that is still on its way can bring them back.                     *)
THEOREM CleanupIsFinal == Spec => []CleanedStaysClean
  <1>1. OutInv => CleanedStaysClean
    <2> SUFFICES ASSUME OutInv, clean.done
                 PROVE  /\ \A key \in Keys : objects[key].cur # "data" /\ ~objects[key].old
                        /\ \A q \in puts : objects[<<q[1], q[2]>>].cur = "marker"
      BY DEF CleanedStaysClean
    <2>1. ~Planned \/ \A s \in Streams : Buried(s)  BY Parts DEF CleanOK
    <2>2. ASSUME NEW key \in Keys PROVE objects[key].cur # "data" /\ ~objects[key].old
      <3>1. ObjectOK(key[1], objects[key])  BY Parts DEF BucketOK
      <3>2. key[2] \in Streams /\ key = <<key[1], key[2]>>  BY KeyFacts
      <3>3. key[1] = row.ticket.attempt /\ Buried(key[2])
              => objects[key].cur = "marker" /\ ~objects[key].old
        BY <3>2 DEF Buried
      <3> QED BY <2>1, <3>1, <3>2, <3>3 DEF ObjectOK
    <2>3. ASSUME NEW q \in puts PROVE objects[<<q[1], q[2]>>].cur = "marker"
      <3>1. q[2] \in Streams /\ q[3] \in Digests  BY Parts, WriteFacts DEF BucketTypes
      <3>2. q[1] = row.ticket.attempt /\ q[3] = row.plans  BY Parts DEF BucketOK
      <3>3. Planned  BY <3>1, <3>2, OutputsAssumption DEF Planned
      <3>4. Buried(q[2])  BY <2>1, <3>1, <3>3
      <3> QED BY <3>2, <3>4 DEF Buried
    <2> QED BY <2>2, <2>3
  <1> QED BY <1>1, OutputInvariant, PTL

(* Bytes reach the bucket only under the persisted plan.                   *)
THEOREM UploadsMatchPlan == Spec => []UploadMatchesPlan
  <1>1. OutInv => UploadMatchesPlan
    BY DEF OutInv, Shared, RowOK, BucketOK, ObjectOK, Planned, UploadMatchesPlan
  <1> QED BY <1>1, OutputInvariant, PTL

(* No step writes over an expired row: what claimed archivers still write  *)
(* is refused, and what remains gives up claims or removes the response.   *)
LEMMA ExpiredStep ==
    ASSUME OutInv, Expired, [Next]_vars
    PROVE  /\ row'.status = "expired" /\ ~row'.lease /\ row'.plans = row.plans
           /\ row'.refs = row.refs /\ row'.ticket = row.ticket
           /\ row.compacted => row'.compacted
  <1>1. row \in RowRecords /\ row.status = "expired" /\ ~row.lease
    BY Parts DEF Expired
  <1>2. ASSUME NEW n PROVE ~Claimed(n) /\ Deferred(n) = row  BY <1>1 DEF Claimed, Deferred, Open
  <1>3. \/ row' = row
        \/ row' = [row EXCEPT !.lease = FALSE]
        \/ \E t \in Policies : row' = [row EXCEPT !.response = t]
        \/ row' = [row EXCEPT !.compacted = TRUE, !.status = "expired", !.lease = FALSE,
                              !.rev = row.rev]
        \/ \E n : row' = [row EXCEPT !.status = "expired", !.lease = FALSE, !.rev = n]
    <2>1. CASE \E a \in Archivers : ArchiverStep(a)
      <3>1. PICK a \in Archivers : ArchiverStep(a)  BY <2>1
      <3>2. ~Claimed(arc[a].rev) /\ row.status \notin Open  BY <1>1, <1>2 DEF Open
      <3> QED BY <1>2, <3>1, <3>2 DEF ArchiverStep, ClaimOutput, PrepareOutput, SavePlans, Publish,
          ArchiverFails, ArchiverDies, Send, dbVars
    <2>2. CASE \E w \in Workers : HostStep(w)
      BY <1>2, <2>2 DEF HostStep, Setup, Look, Put, Confirm, Finish, Answered, RequestFails,
         Collect, Recapture, dbVars
    <2>3. CASE \E k \in Cleaners : CleanerStep(k)
      <3>1. PICK k \in Cleaners : CleanerStep(k)  BY <2>3
      <3>2. CASE PrepareCleanup(k)
        BY <3>2 DEF PrepareCleanup
      <3>3. CASE ~PrepareCleanup(k)
        BY <3>1, <3>3 DEF CleanerStep, ClaimCleanup, CompleteCleanup, Inspect, Mark, Marked,
           RemovePrevious, CleanerFails, CleanerDies, dbVars
      <3> QED BY <3>2, <3>3
    <2>4. CASE BucketStep  BY <2>4 DEF BucketStep, PutLands, MarkLands, dbVars
    <2>5. CASE RowStep
      BY <1>1, <2>5 DEF RowStep, AssignRetention, CompactExpired, EnqueueExpired
    <2>6. CASE GuestGone \/ Tick \/ ClaimLapses \/ CleanupLapses \/ UNCHANGED vars
      BY <2>6 DEF GuestGone, Tick, ClaimLapses, CleanupLapses, dbVars, vars
    <2> QED BY <2>1, <2>2, <2>3, <2>4, <2>5, <2>6 DEF Next
  <1> QED BY <1>1, <1>3 DEF RowRecords

(* What cleanup froze stays the whole truth: no status, plan or reference  *)
(* is written over an expired output, whatever claim its writer held.      *)
THEOREM ExpiryIsFinal == Spec => ExpiredIsFinal
  <1> DEFINE Finality ==
        /\ row.status = "expired" =>
              /\ row'.status = "expired" /\ ~row'.lease
              /\ row'.plans = row.plans /\ row'.refs = row.refs
        /\ clean.manifest # None => clean.manifest = Inventory'
        /\ row.compacted => row'.compacted /\ row'.ticket = row.ticket
  <1>1. OutInv /\ [Next]_vars => [Finality]_vars
    <2> SUFFICES ASSUME OutInv, [Next]_vars PROVE Finality  OBVIOUS
    <2>1. Expired =>
            /\ row'.status = "expired" /\ ~row'.lease /\ row'.plans = row.plans
            /\ row'.refs = row.refs /\ row'.ticket = row.ticket
            /\ row.compacted => row'.compacted
      BY ExpiredStep
    <2>2. row.compacted => Expired  BY Parts DEF RowOK
    <2>3. clean.manifest # None => clean.manifest = Inventory /\ Expired  BY Parts DEF CleanOK
    <2>4. Expired => Inventory' = Inventory  BY <2>1 DEF Inventory
    <2>5. row.status = "expired" <=> Expired  BY DEF Expired
    <2> QED BY <2>1, <2>2, <2>3, <2>4, <2>5
  <1> QED BY <1>1, OutputInvariant, PTL DEF Spec, ExpiredIsFinal
=============================================================================
