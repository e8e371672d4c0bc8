--------------------------- MODULE CatalogImages ---------------------------
(***************************************************************************)
(* The catalog worker around one config's run: its ticks, the order of the *)
(* configs in a pass, its Odoo session, and the image jobs a pass leaves   *)
(* running (product-catalog-service: sync-worker.ts, catalog/repository.ts,*)
(* odoo-client.ts).                                                        *)
(*                                                                         *)
(* What syncConfig does call by call is CatalogSync's subject; here it is  *)
(* one step that publishes, finds nothing new, is locked out or throws.    *)
(* Each time it succeeds it chains an image job to those of its config.    *)
(* The jobs of all configs share the image documents, which are keyed by   *)
(* product and warehouse; the rows they mark belong to one snapshot.       *)
(***************************************************************************)
EXTENDS Naturals, FiniteSets, SequencesExt, SortedLists

CONSTANTS
    Order,          \* the POS configs, in the order Odoo lists them
    Products,       \* the products all of them sell in one warehouse
    Eager,          \* catalogImageEagerCount: the size of a job's first batch
    MaxChanges,     \* bound: number of changes made in Odoo
    MaxFaults,      \* bound: number of faults
    MaxQueue,       \* bound: image jobs waiting for one config
    Env             \* "html": Odoo answers an image request with a page

Configs == Range(Order)
Dates == 0..MaxChanges
Snapshots == 1..MaxChanges + 1
None == 0           \* no snapshot

ASSUME ImagesAssumption ==
    /\ Order \in Seq(Configs)
    /\ IsFiniteSet(Products) /\ Products \subseteq Nat
    /\ Eager \in Nat /\ MaxChanges \in Nat /\ MaxFaults \in Nat
    /\ MaxQueue \in Nat \ {0}
    /\ Env \subseteq {"html"}

(* Odoo's record of a product: image_write_date, and whether there is an   *)
(* image and so an image_url.  An image is known by the date it got.       *)
Record == [date : Dates, url : BOOLEAN]

Image == {{}} \cup {{v} : v \in Dates}      \* no image, or that of a date

VARIABLES
    odoo,     \* Odoo's records
    changes,  \* number of changes made in Odoo, the clock of write dates
    faults,   \* number of faults so far
    token,    \* the session token Odoo accepts
    timer,    \* what the worker's tick does
    at,       \* the config a pass has come to
    session,  \* the worker's session, as a set of tokens: none or one
    taken,    \* the snapshots each config published, newest last
    shown,    \* the image each snapshot's row is marked with
    docs,     \* the image documents
    imaging,  \* image_sync_* of each config's sync state
    queue,    \* the jobs waiting in each config's promise chain
    job,      \* the job each config is executing
    late      \* unawaited markImageSyncFailed calls still to be applied

odooVars == <<odoo, changes, token>>
passVars == <<timer, at, session, taken>>
jobVars  == <<queue, job, late>>
vars == <<odooVars, faults, passVars, shown, docs, imaging, jobVars>>

-----------------------------------------------------------------------------
Job ==
    [ step  : {"none", "start", "list", "link", "linkRows", "need", "fetch",
               "store", "remove", "complete"},
      snap  : Snapshots \cup {None},
      token : Nat,
      offset : Nat,
      batch : SUBSET Products,              \* the products in hand
      links : [Products -> Image],          \* what the link step found
      need  : SUBSET Products,              \* imagesNeedingSync
      got   : [Products -> Image],          \* what Odoo answered
      to_do : SUBSET {"docs", "rows"},      \* parallel writes not yet done
      total : Nat, synced : Nat, failed : Nat ]

NoImages == [p \in Products |-> {}]

NoJob == [ step |-> "none", snap |-> None, token |-> 0, offset |-> 0,
           batch |-> {}, links |-> NoImages, need |-> {}, got |-> NoImages,
           to_do |-> {}, total |-> 0, synced |-> 0, failed |-> 0 ]

Imaging == [ status : {"none", "pending", "running", "complete", "failed"},
             total : Nat, synced : Nat, failed : Nat ]

Doc == [stored : BOOLEAN, date : Dates, image : Image]

ImagesTypeOK ==
    /\ odoo \in [Products -> Record]
    /\ changes \in Dates /\ faults \in 0..MaxFaults /\ token \in Nat
    /\ timer \in {"armed", "ticking", "off"}
    /\ at \in 1..Len(Order) + 1
    /\ session \in {{}} \cup {{t} : t \in 0..token}
    /\ taken \in [Configs -> Seq([Products -> Record])]
    /\ shown \in [Configs -> [Snapshots -> [Products -> Image]]]
    /\ docs \in [Products -> Doc]
    /\ imaging \in [Configs -> Imaging]
    /\ queue \in [Configs -> Seq([snap : Snapshots, token : Nat])]
    /\ job \in [Configs -> Job]
    /\ late \in [Configs -> SUBSET Snapshots]

Init ==
    /\ odoo = [p \in Products |-> [date |-> 0, url |-> TRUE]]
    /\ changes = 0 /\ faults = 0 /\ token = 0
    /\ timer = "armed" /\ at = 1 /\ session = {}
    /\ taken = [c \in Configs |-> <<>>]
    /\ shown = [c \in Configs |-> [s \in Snapshots |-> NoImages]]
    /\ docs = [p \in Products |-> [stored |-> FALSE, date |-> 0, image |-> {}]]
    /\ imaging = [c \in Configs |-> [ status |-> "none", total |-> 0,
                                      synced |-> 0, failed |-> 0 ]]
    /\ queue = [c \in Configs |-> <<>>]
    /\ job = [c \in Configs |-> NoJob]
    /\ late = [c \in Configs |-> {}]

-----------------------------------------------------------------------------
(* Odoo: an image is set, replaced or removed.  Sessions are revoked. *)

OdooImage(p, has) ==
    /\ changes < MaxChanges
    /\ changes' = changes + 1
    /\ odoo' = [odoo EXCEPT ![p] = [date |-> changes + 1, url |-> has]]
    /\ UNCHANGED <<faults, token, passVars, shown, docs, imaging, jobVars>>

Fault == faults < MaxFaults /\ faults' = faults + 1

SessionRevoked ==
    /\ Fault
    /\ token' = token + 1
    /\ UNCHANGED <<odoo, changes, passVars, shown, docs, imaging, jobVars>>

-----------------------------------------------------------------------------
(* A pass: tick, syncOnce.  Delays are not modelled, and with them the     *)
(* back-off: a tick is followed by another one at some time, whether it    *)
(* succeeded or failed.                                                    *)

Active(c) == Len(taken[c])

(* The fingerprint of Odoo's records is that of the active snapshot. *)
UpToDate(c) == IF taken[c] = <<>> THEN FALSE ELSE Last(taken[c]) = odoo

(* getSession keeps a session until it is about to expire, or else logs in *)
(* anew; the pass then asks for the configs.                               *)
PassBegins(s) ==
    /\ timer = "armed"
    /\ \A c \in Configs : Len(queue[c]) < MaxQueue
    /\ s = {token} \/ (session # {} /\ s = session)
    /\ timer' = "ticking" /\ at' = 1 /\ session' = s
    /\ UNCHANGED <<odooVars, faults, taken, shown, docs, imaging, jobVars>>

(* Mutant: the session outlives the failure. *)
AfterFailure_Kept == session

(* A failed pass drops the session. *)
AfterFailure == {}

(* Something throws: the login, the list of configs, or a config's run.    *)
(* The pass ends there; its later configs wait for the next one.           *)
PassThrows ==
    /\ timer = "ticking"
    /\ timer' = "armed" /\ session' = AfterFailure
    /\ UNCHANGED <<odooVars, at, taken, shown, docs, imaging, jobVars>>

PassFails == PassThrows /\ Fault

(* Odoo no longer accepts the session the pass began with. *)
PassRefused == PassThrows /\ session # {token} /\ UNCHANGED faults

PassEnds ==
    /\ timer = "ticking" /\ at > Len(Order)
    /\ timer' = "armed"
    /\ UNCHANGED <<odooVars, faults, at, session, taken, shown, docs, imaging,
                   jobVars>>

AtConfig(c) == timer = "ticking" /\ at <= Len(Order) /\ Order[at] = c

(* Mutant: the job is given the snapshot before. *)
Schedule_Previous(c, s) ==
    \E t \in session :
        queue' = [queue EXCEPT ![c] = Append(@, [snap |-> s - 1, token |-> t])]

(* scheduleImageSync chains a job to the config's earlier ones. *)
Schedule(c, s) ==
    \E t \in session :
        queue' = [queue EXCEPT ![c] = Append(@, [snap |-> s, token |-> t])]

(* syncConfig publishes a snapshot; the prune leaves the one before it.    *)
(* The new rows carry no image yet, and the image state starts anew.       *)
ConfigPublished(c) ==
    /\ AtConfig(c) /\ session = {token}
    /\ ~UpToDate(c)
    /\ taken' = [taken EXCEPT ![c] = Append(@, odoo)]
    /\ shown' = [shown EXCEPT ![c] = [s \in Snapshots |->
                    IF s < Active(c) THEN NoImages ELSE shown[c][s]]]
    /\ imaging' = [imaging EXCEPT ![c] = [ status |-> "pending", total |-> 0,
                                           synced |-> 0, failed |-> 0 ]]
    /\ Schedule(c, Active(c) + 1)
    /\ at' = at + 1
    /\ UNCHANGED <<odooVars, faults, timer, session, docs, job, late>>

(* Mutant: an unchanged catalog needs no image job. *)
ConfigUnchanged_NoJob(c) ==
    /\ AtConfig(c) /\ session = {token}
    /\ UpToDate(c)
    /\ at' = at + 1
    /\ UNCHANGED <<odooVars, faults, timer, session, taken, shown, docs,
                   imaging, jobVars>>

(* Nothing new: the images of the active snapshot are looked at again. *)
ConfigUnchanged(c) ==
    /\ AtConfig(c) /\ session = {token}
    /\ UpToDate(c)
    /\ Schedule(c, Active(c))
    /\ at' = at + 1
    /\ UNCHANGED <<odooVars, faults, timer, session, taken, shown, docs,
                   imaging, job, late>>

(* The config's lock is held, by a process that died or a request to       *)
(* /catalog/sync/ensure.                                                   *)
ConfigLocked(c) ==
    /\ AtConfig(c) /\ Fault
    /\ at' = at + 1
    /\ UNCHANGED <<odooVars, timer, session, taken, shown, docs, imaging,
                   jobVars>>

PassStep ==
    \/ \E s \in SUBSET (0..token) : PassBegins(s)
    \/ PassEnds
    \/ PassRefused
    \/ \E c \in Configs : ConfigPublished(c) \/ ConfigUnchanged(c)

-----------------------------------------------------------------------------
(* An image job, in the order of its awaited calls. *)

(* The documents of a snapshot exist until the prune after next. *)
Exists(c, s) == s \in Snapshots /\ s + 1 >= Active(c)

With(record, fields) ==
    [x \in DOMAIN record |-> IF x \in DOMAIN fields THEN fields[x] ELSE record[x]]

Step(c, fields) == job' = [job EXCEPT ![c] = With(@, fields)]

JobOnly == UNCHANGED <<odooVars, faults, passVars, queue, late>>

WithUrl(c, s) ==
    IF Exists(c, s) THEN {p \in Products : taken[c][s][p].url} ELSE {}

(* The snapshot's record of a product, as the job holds it in memory. *)
Row(c, p) == taken[c][job[c].snap][p]

JobIdle(c) == job[c].step = "none"

JobBegins(c) ==
    /\ JobIdle(c)
    /\ queue[c] # <<>>
    /\ job' = [job EXCEPT ![c] = [NoJob EXCEPT !.step = "start",
                                               !.snap = Head(queue[c]).snap,
                                               !.token = Head(queue[c]).token]]
    /\ queue' = [queue EXCEPT ![c] = Tail(@)]
    /\ UNCHANGED <<odooVars, faults, passVars, shown, docs, imaging, late>>

(* Mutant: the progress is reported whatever snapshot is active. *)
Report_Any(c, new) == [imaging EXCEPT ![c] = new]

(* Progress is reported only of the active snapshot. *)
Report(c, new) ==
    IF job[c].snap = Active(c) THEN [imaging EXCEPT ![c] = new] ELSE imaging

(* countSnapshotProductsForImages and markImageSyncStarted: the rows of a  *)
(* snapshot do not change in number while it is the active one.            *)
JobStart(c) ==
    LET n == Cardinality(WithUrl(c, job[c].snap))
    IN  /\ job[c].step = "start"
        /\ imaging' = Report(c, [ status |-> "running", total |-> n,
                                  synced |-> 0, failed |-> 0 ])
        /\ Step(c, [step |-> "list", total |-> n])
        /\ UNCHANGED <<shown, docs>> /\ JobOnly

(* The order of the product listing. *)
DateOrder(c) == {x \in Products \X Products :
    \/ Row(c, x[1]).date < Row(c, x[2]).date
    \/ Row(c, x[1]).date = Row(c, x[2]).date /\ x[1] < x[2]}

Listed(c) == SortedBy(WithUrl(c, job[c].snap), DateOrder(c))

(* The first batch is small, so that the first cards have their images     *)
(* early; the next one is large enough for all the rest.                   *)
NextBatch(c) ==
    LET from == job[c].offset
        last == IF from = 0 THEN (IF Eager = 0 THEN 1 ELSE Eager) ELSE Len(Listed(c))
    IN  SubSeq(Listed(c), from + 1,
               IF last < Len(Listed(c)) THEN last ELSE Len(Listed(c)))

JobList(c) ==
    /\ job[c].step = "list"
    /\ IF NextBatch(c) = <<>>
       THEN Step(c, [step |-> "complete"])
       ELSE Step(c, [ step |-> "link", batch |-> Range(NextBatch(c)),
                      offset |-> job[c].offset + Len(NextBatch(c)) ])
    /\ UNCHANGED <<shown, docs, imaging>> /\ JobOnly

(* Mutant: any stored image will do. *)
Linkable_AnyDate(c, p) == docs[p].stored

(* There is an image, of the date the row asks for.                        *)
Linkable(c, p) == docs[p].stored /\ docs[p].date = Row(c, p).date

(* linkExistingImagesToSnapshot finds images that are there already ...    *)
JobLink(c) ==
    /\ job[c].step = "link"
    /\ Step(c, [ step |-> "linkRows",
                 links |-> [p \in Products |->
                    IF p \in job[c].batch /\ Linkable(c, p)
                    THEN docs[p].image ELSE {}] ])
    /\ UNCHANGED <<shown, docs, imaging>> /\ JobOnly

Given(images) == {p \in Products : images[p] # {}}

(* Row updates match nothing once the snapshot has been pruned. *)
Marked(c, images, which) ==
    IF ~Exists(c, job[c].snap) THEN shown
    ELSE [shown EXCEPT ![c][job[c].snap] =
            [p \in Products |-> IF p \in which THEN images[p] ELSE @[p]]]

(* ... and then marks the rows with them.                                  *)
JobLinkRows(c) ==
    /\ job[c].step = "linkRows"
    /\ shown' = Marked(c, job[c].links, Given(job[c].links))
    /\ Step(c, [ step |-> "need", links |-> NoImages,
                 synced |-> job[c].synced + Cardinality(Given(job[c].links)) ])
    /\ UNCHANGED <<docs, imaging>> /\ JobOnly

(* Mutant: only images of another date are needed. *)
Needed_Stored(c, p) == docs[p].stored /\ docs[p].date # Row(c, p).date

(* imagesNeedingSync: no document, or one of another date.  A document     *)
(* that says there is no image is up to date as well.                      *)
Needed(c, p) == ~docs[p].stored \/ docs[p].date # Row(c, p).date

JobNeed(c) ==
    LET need == {p \in job[c].batch : Needed(c, p)}
    IN  /\ job[c].step = "need"
        /\ Step(c, IF need = {} THEN [step |-> "list", batch |-> {}]
                   ELSE [step |-> "fetch", need |-> need])
        /\ UNCHANGED <<shown, docs, imaging>> /\ JobOnly

(* What a request for an image can bring: the image Odoo has now, or null: *)
(* there is none, or the answer is not of an image type.                   *)
Answers(p) ==
    {IF odoo[p].url THEN {odoo[p].date} ELSE {}}
        \cup (IF "html" \in Env THEN {{}} ELSE {})

(* The images needed are fetched side by side.  A request fails, with the  *)
(* others unaffected, if the job's token is no longer accepted or by a     *)
(* fault.                                                                  *)
JobFetch(c) ==
    LET need == job[c].need
    IN  /\ job[c].step = "fetch"
        /\ \E failing \in SUBSET need, got \in [need -> UNION {Answers(p) : p \in need}] :
              /\ \A p \in need : got[p] \in Answers(p)
              /\ \/ job[c].token # token /\ failing = need /\ UNCHANGED faults
                 \/ job[c].token = token /\ failing = {} /\ UNCHANGED faults
                 \/ failing # {} /\ Fault
              /\ Step(c, [ step |-> "store", to_do |-> {"docs", "rows"},
                           need |-> need \ failing,
                           got |-> With(NoImages, got),
                           failed |-> job[c].failed + Cardinality(failing) ])
        /\ UNCHANGED <<shown, docs, imaging>>
        /\ UNCHANGED <<odooVars, passVars, queue, late>>

Stored(c, images, which) ==
    [p \in Products |-> IF p \in which
        THEN [stored |-> TRUE, date |-> Row(c, p).date, image |-> images[p]]
        ELSE docs[p]]

Images(c) == Given(job[c].got) \cap job[c].need

(* upsertProductImages writes the image documents beside the rows.         *)
JobStore(c, what) ==
    LET images == Images(c)
        left   == job[c].to_do \ {what}
        null   == job[c].need \ images
    IN  /\ job[c].step = "store"
        /\ what \in job[c].to_do
        /\ docs' = IF what = "docs" THEN Stored(c, job[c].got, images) ELSE docs
        /\ shown' = IF what = "rows" THEN Marked(c, job[c].got, images) ELSE shown
        /\ Step(c, IF left # {} THEN [to_do |-> left]
                   ELSE [ step |-> "remove", to_do |-> {"docs", "rows"},
                          need |-> null,
                          synced |-> job[c].synced + Cardinality(images)
                             + Cardinality({p \in null : docs'[p].stored}) ])
        /\ UNCHANGED imaging /\ JobOnly

(* removeProductImages stores that there is no image, for the row's date,  *)
(* beside unmarking the rows.                                              *)
JobRemove(c, what) ==
    LET left == job[c].to_do \ {what}
    IN  /\ job[c].step = "remove"
        /\ what \in job[c].to_do
        /\ docs' = IF what = "docs" THEN Stored(c, NoImages, job[c].need) ELSE docs
        /\ shown' = IF what = "rows" THEN Marked(c, NoImages, job[c].need) ELSE shown
        /\ Step(c, IF left # {} THEN [to_do |-> left]
                   ELSE [ step |-> "list", to_do |-> {}, batch |-> {},
                          need |-> {}, got |-> NoImages ])
        /\ UNCHANGED imaging /\ JobOnly

JobComplete(c) ==
    /\ job[c].step = "complete"
    /\ imaging' = Report(c, [ status |-> IF job[c].failed > 0 THEN "failed"
                                                              ELSE "complete",
                              total |-> job[c].total,
                              synced |-> job[c].synced,
                              failed |-> job[c].failed ])
    /\ job' = [job EXCEPT ![c] = NoJob]
    /\ UNCHANGED <<shown, docs>> /\ JobOnly

(* The images a job is writing, to the rows and documents it writes them   *)
(* to: none where that write is done or has not begun.                     *)
Writing(c) ==
    IF job[c].step = "linkRows" THEN job[c].links
    ELSE IF job[c].step = "store" THEN job[c].got ELSE NoImages

Targets(c, what) ==
    IF job[c].step = "linkRows"
    THEN IF what = "rows" THEN Given(job[c].links) ELSE {}
    ELSE IF what \notin job[c].to_do THEN {}
    ELSE IF job[c].step = "store" THEN Images(c) ELSE job[c].need

(* A call throws: the job ends, and its failure is marked unawaited, so    *)
(* the next job of the chain may have begun by then.  A bulk write that    *)
(* throws, or that runs beside the one that does, may have reached any of  *)
(* its rows or documents.                                                  *)
JobThrows(c) ==
    /\ job[c].step # "none"
    /\ Fault
    /\ \E some \in SUBSET Targets(c, "docs") :
          docs' = Stored(c, Writing(c), some)
    /\ \E some \in SUBSET Targets(c, "rows") :
          shown' = Marked(c, Writing(c), some)
    /\ job' = [job EXCEPT ![c] = NoJob]
    /\ late' = [late EXCEPT ![c] = @ \cup {job[c].snap}]
    /\ UNCHANGED <<odooVars, passVars, imaging, queue>>

MarkFailed(c) ==
    \E s \in late[c] :
        /\ imaging' = IF s = Active(c) THEN [imaging EXCEPT ![c].status = "failed"]
                                       ELSE imaging
        /\ late' = [late EXCEPT ![c] = @ \ {s}]
        /\ UNCHANGED <<odooVars, faults, passVars, shown, docs, queue, job>>

JobStep(c) ==
    \/ JobBegins(c) \/ JobStart(c) \/ JobList(c) \/ JobLink(c) \/ JobLinkRows(c)
    \/ JobNeed(c) \/ JobFetch(c) \/ JobComplete(c)
    \/ \E what \in {"docs", "rows"} : JobStore(c, what) \/ JobRemove(c, what)

(* The process dies, by itself or because marking a failure failed, and    *)
(* starts again: pass, session, jobs and their chains are gone.            *)
Restart ==
    /\ Fault
    /\ timer' = "armed" /\ at' = 1 /\ session' = {}
    /\ queue' = [c \in Configs |-> <<>>]
    /\ job' = [c \in Configs |-> NoJob]
    /\ late' = [c \in Configs |-> {}]
    /\ UNCHANGED <<odooVars, taken, shown, docs, imaging>>

-----------------------------------------------------------------------------
Next ==
    \/ \E p \in Products, has \in BOOLEAN : OdooImage(p, has)
    \/ SessionRevoked
    \/ PassStep
    \/ PassFails
    \/ \E c \in Configs : ConfigLocked(c)
    \/ \E c \in Configs : JobStep(c) \/ JobThrows(c) \/ MarkFailed(c)
    \/ Restart

Spec == Init /\ [][Next]_vars

(* The timer fires, and awaited calls are answered. *)
FairSpec ==
    /\ Spec
    /\ WF_vars(PassStep)
    /\ \A c \in Configs : WF_vars(JobStep(c)) /\ WF_vars(MarkFailed(c))

-----------------------------------------------------------------------------
(* Properties. *)

(* No row is ever marked with an older image than its record asks for,     *)
(* through jobs of older snapshots, of other configs and restarts.         *)
NoStaleImage ==
    \A c \in Configs, p \in Products : \A s \in 1..Active(c) :
        Exists(c, s) => \A v \in shown[c][s][p] : v >= taken[c][s][p].date

(* A config whose image state is "complete" has a document stored for      *)
(* every product of its active snapshot that has an image, be it the image *)
(* or the note that Odoo's answer was none, even if its row is not marked  *)
(* yet: jobs of two configs share the documents, and what one stores       *)
(* between another's look for links and its look for images needed is      *)
(* linked by the other's next job only.                                    *)
CompleteStoredAll ==
    \A c \in Configs : imaging[c].status = "complete" =>
        \A p \in WithUrl(c, Active(c)) : docs[p].stored

(* The total a client derives its progress from counts the images of the  *)
(* snapshot that client lists, not those of one an older job looks at.     *)
TotalDescribesActive ==
    \A c \in Configs : imaging[c].status \in {"running", "complete"} =>
        imaging[c].total = Cardinality(WithUrl(c, Active(c)))

(* Once Odoo and the faults are quiet, every config comes to hold Odoo's   *)
(* records, to show exactly Odoo's images, and to be able to serve them;   *)
(* and no status a job left behind lasts: it is "complete" again and again.*)
ImagesCatchUp ==
    \A c \in Configs :
        /\ []<>(imaging[c].status = "complete")
        /\ <>[](/\ UpToDate(c)
                /\ \A p \in Products :
                     IF odoo[p].url
                     THEN /\ shown[c][Active(c)][p] = {odoo[p].date}
                          /\ docs[p].image = {odoo[p].date}
                     ELSE shown[c][Active(c)][p] = {})

=============================================================================
