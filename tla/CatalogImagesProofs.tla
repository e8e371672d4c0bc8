------------------------- MODULE CatalogImagesProofs -------------------------
(***************************************************************************)
(* Theorems about CatalogImages, for every list of configs, set of         *)
(* products, batch size and number of changes, faults and waiting jobs:    *)
(* the marked images, the reported totals and what "complete" means, over  *)
(* jobs of older snapshots and of other configs, revoked sessions, failed  *)
(* requests and restarts.  The invariant ImagesInv comes first, then the   *)
(* types, and last, on top of both, CoverInv.                              *)
(***************************************************************************)
EXTENDS CatalogImages, ListLemmas

-----------------------------------------------------------------------------
(* The inductive invariant.  Odoo's write dates only grow, so what is      *)
(* fetched is at least as new as what any snapshot asks for, and stays so. *)

Records ==
    /\ changes \in Dates
    /\ odoo \in [Products -> Record]
    /\ \A p \in Products : odoo[p].date <= changes
    /\ taken \in [Configs -> Seq([Products -> Record])]
    /\ \A c \in Configs : \A s \in 1..Len(taken[c]), p \in Products :
          taken[c][s][p].date <= odoo[p].date

Documents ==
    /\ docs \in [Products -> Doc]
    /\ \A p \in Products : \A v \in docs[p].image : v >= docs[p].date

(* Images as new as a snapshot asks for. *)
FreshFor(c, s, images) ==
    \A p \in Products : \A v \in images[p] : v >= taken[c][s][p].date

(* Rows are marked with fresh images, those still to come with none. *)
Marks ==
    /\ shown \in [Configs -> [Snapshots -> [Products -> Image]]]
    /\ \A c \in Configs, s \in Snapshots :
          IF s \in 1..Active(c) THEN Exists(c, s) => FreshFor(c, s, shown[c][s])
                                ELSE shown[c][s] = NoImages

(* Jobs are of snapshots that were taken. *)
Queues ==
    /\ token \in Nat /\ session \subseteq Nat
    /\ queue \in [Configs -> Seq([snap : Nat, token : Nat])]
    /\ \A c \in Configs : \A i \in DOMAIN queue[c] :
          queue[c][i].snap \in 1..Active(c)

Shaped(j) ==
    /\ {"step", "snap", "links", "got", "total"} \subseteq DOMAIN j
    /\ j.links \in [Products -> Image] /\ j.got \in [Products -> Image]

(* What a job holds of images is fresh, and its total is that of its       *)
(* snapshot for as long as this is the active one.                         *)
Holds(c, j) ==
    /\ j.snap \in 1..Active(c)
    /\ FreshFor(c, j.snap, j.links) /\ FreshFor(c, j.snap, j.got)
    /\ j.step # "start" /\ j.snap = Active(c)
         => j.total = Cardinality(WithUrl(c, Active(c)))

Jobs ==
    /\ DOMAIN job = Configs /\ job = [c \in Configs |-> job[c]]
    /\ \A c \in Configs :
          Shaped(job[c]) /\ (job[c].step # "none" => Holds(c, job[c]))

Reports ==
    /\ DOMAIN imaging = Configs /\ imaging = [c \in Configs |-> imaging[c]]
    /\ \A c \in Configs : {"status", "total"} \subseteq DOMAIN imaging[c]
    /\ TotalDescribesActive

ImagesInv == Records /\ Documents /\ Marks /\ Queues /\ Jobs /\ Reports

-----------------------------------------------------------------------------
LEMMA Changed ==
    ASSUME NEW r, NEW fields
    PROVE  /\ DOMAIN With(r, fields) = DOMAIN r
           /\ \A x \in DOMAIN r :
                 With(r, fields)[x] = IF x \in DOMAIN fields THEN fields[x] ELSE r[x]
  BY DEF With

LEMMA NoImagesFit ==
    /\ NoImages \in [Products -> Image]
    /\ \A c, s : FreshFor(c, s, NoImages)
  BY DEF NoImages, Image, FreshFor

LEMMA InitHolds == Init => ImagesInv
<1> SUFFICES ASSUME Init PROVE ImagesInv
  OBVIOUS
<1> USE DEF Init
<1>0. MaxChanges \in Nat /\ 0 \in Dates
  BY ImagesAssumption DEF Dates
<1>1. Records
  BY <1>0 DEF Records, Record
<1>2. Documents
  BY <1>0 DEF Documents, Doc, Image
<1>3. Marks
  BY NoImagesFit DEF Marks, Active
<1>4. Queues
  BY DEF Queues
<1>5. Jobs
  BY NoImagesFit DEF Jobs, Shaped, NoJob
<1>6. Reports
  BY DEF Reports, TotalDescribesActive
<1> QED
  BY <1>1, <1>2, <1>3, <1>4, <1>5, <1>6 DEF ImagesInv

(* A step of a config's job, that leaves Odoo, the passes and the chains   *)
(* as they are.                                                            *)
LEMMA JobKeeps ==
    ASSUME ImagesInv, NEW c \in Configs, NEW new,
           job' = [job EXCEPT ![c] = new],
           Shaped(new), new.step # "none" => Holds(c, new),
           UNCHANGED <<odoo, changes, taken, token, session, queue>>,
           Documents', Marks', Reports'
    PROVE  ImagesInv'
<1>1. Records' /\ Queues'
  BY DEF ImagesInv, Records, Queues, Active
<1>2. Jobs'
  <2>1. job = [d \in Configs |-> job[d]] /\ DOMAIN job = Configs
    BY DEF ImagesInv, Jobs
  <2>2. DOMAIN job' = Configs /\ job' = [d \in Configs |-> job'[d]]
    BY <2>1
  <2>3. ASSUME NEW d \in Configs
        PROVE  Shaped(job'[d]) /\ (job'[d].step # "none" => Holds(d, job'[d]))
    <3>1. CASE d = c
      BY <2>1, <3>1
    <3>2. CASE d # c
      <4>1. job'[d] = job[d]
        BY <2>1, <3>2
      <4> QED
        BY <4>1 DEF ImagesInv, Jobs
    <3> QED
      BY <3>1, <3>2
  <2>4. \A d \in Configs : Shaped(job'[d]) <=> Shaped(job[d])'
    BY DEF Shaped
  <2>5. \A d \in Configs : Holds(d, job'[d]) <=> Holds(d, job[d])'
    BY DEF Holds, FreshFor, Active, WithUrl, Exists
  <2> QED
    BY <2>2, <2>3, <2>4, <2>5 DEF Jobs
<1> QED
  BY <1>1, <1>2 DEF ImagesInv

-----------------------------------------------------------------------------
(* What the parts of a job's step keep: the job, the rows, the documents   *)
(* and the reports.                                                        *)

LEMMA HoldsOn ==
    ASSUME ImagesInv, NEW c \in Configs, job[c].step # "none", NEW fields,
           "snap" \notin DOMAIN fields,
           "links" \in DOMAIN fields =>
              /\ fields.links \in [Products -> Image]
              /\ FreshFor(c, job[c].snap, fields.links),
           "got" \in DOMAIN fields =>
              /\ fields.got \in [Products -> Image]
              /\ FreshFor(c, job[c].snap, fields.got),
           "total" \in DOMAIN fields =>
              fields.total = Cardinality(WithUrl(c, job[c].snap)),
           "step" \in DOMAIN fields => fields.step # "start",
           job[c].step = "start" => "total" \in DOMAIN fields
    PROVE  Shaped(With(job[c], fields)) /\ Holds(c, With(job[c], fields))
<1> DEFINE new == With(job[c], fields)
<1>1. Shaped(job[c]) /\ Holds(c, job[c])
  BY DEF ImagesInv, Jobs
<1>2. /\ DOMAIN new = DOMAIN job[c]
      /\ \A x \in DOMAIN job[c] :
            new[x] = IF x \in DOMAIN fields THEN fields[x] ELSE job[c][x]
  BY Changed
<1> HIDE DEF new
<1>3. new.snap = job[c].snap
  BY <1>1, <1>2 DEF Shaped
<1>4. new.links \in [Products -> Image] /\ FreshFor(c, job[c].snap, new.links)
  BY <1>1, <1>2 DEF Shaped, Holds
<1>5. new.got \in [Products -> Image] /\ FreshFor(c, job[c].snap, new.got)
  BY <1>1, <1>2 DEF Shaped, Holds
<1>6. Shaped(new)
  BY <1>1, <1>2, <1>4, <1>5 DEF Shaped
<1>7. ASSUME new.snap = Active(c) PROVE new.total = Cardinality(WithUrl(c, Active(c)))
  <2>1. CASE "total" \in DOMAIN fields
    BY <1>1, <1>2, <1>3, <1>7, <2>1 DEF Shaped
  <2>2. CASE "total" \notin DOMAIN fields
    BY <1>1, <1>2, <1>3, <1>7, <2>2 DEF Shaped, Holds
  <2> QED
    BY <2>1, <2>2
<1>8. Holds(c, new)
  BY <1>1, <1>3, <1>4, <1>5, <1>7 DEF Holds
<1> QED
  BY <1>6, <1>8 DEF new

LEMMA MarkedKeeps ==
    ASSUME ImagesInv, NEW c \in Configs, job[c].step # "none",
           NEW images \in [Products -> Image], NEW which,
           FreshFor(c, job[c].snap, images),
           shown' = Marked(c, images, which), taken' = taken
    PROVE  Marks'
<1> DEFINE s == job[c].snap
           row == [p \in Products |-> IF p \in which THEN images[p] ELSE shown[c][s][p]]
<1>1. /\ shown \in [Configs -> [Snapshots -> [Products -> Image]]]
      /\ s \in 1..Active(c)
  BY DEF ImagesInv, Marks, Jobs, Holds
<1>2. CASE ~Exists(c, s)
  BY <1>2 DEF Marked, ImagesInv, Marks, Active, Exists, FreshFor
<1>3. CASE Exists(c, s)
  <2>1. s \in Snapshots
    BY <1>3 DEF Exists
  <2>2. row \in [Products -> Image]
    BY <1>1, <2>1
  <2>3. FreshFor(c, s, row)
    BY <1>1, <1>3, <2>1 DEF ImagesInv, Marks, FreshFor
  <2>4. shown' = [shown EXCEPT ![c][s] = row]
    BY <1>1, <1>3, <2>1 DEF Marked
  <2> HIDE DEF row, s
  <2>5. shown' \in [Configs -> [Snapshots -> [Products -> Image]]]
    BY <1>1, <2>1, <2>2, <2>4
  <2>6. ASSUME NEW d \in Configs, NEW t \in Snapshots
        PROVE  shown'[d][t] = IF d = c /\ t = s THEN row ELSE shown[d][t]
    BY <1>1, <2>1, <2>4
  <2>7. ASSUME NEW d \in Configs, NEW t \in Snapshots
        PROVE  IF t \in 1..Active(d) THEN Exists(d, t) => FreshFor(d, t, shown'[d][t])
                                     ELSE shown'[d][t] = NoImages
    BY <1>1, <2>3, <2>6 DEF ImagesInv, Marks
  <2> QED
    BY <2>5, <2>7 DEF Marks, Active, Exists, FreshFor
<1> QED
  BY <1>2, <1>3

LEMMA StoredKeeps ==
    ASSUME ImagesInv, NEW c \in Configs, job[c].step # "none",
           NEW images \in [Products -> Image], NEW which,
           FreshFor(c, job[c].snap, images), docs' = Stored(c, images, which)
    PROVE  Documents'
<1>1. taken[c][job[c].snap] \in [Products -> Record]
  <2>1. taken[c] \in Seq([Products -> Record]) /\ job[c].snap \in 1..Len(taken[c])
    BY DEF ImagesInv, Records, Jobs, Holds, Active
  <2> QED
    BY <2>1
<1>2. ASSUME NEW p \in Products
      PROVE  /\ docs'[p] \in Doc
             /\ \A v \in docs'[p].image : v >= docs'[p].date
  <2>1. CASE p \in which
    <3>1. docs'[p] = [stored |-> TRUE, date |-> Row(c, p).date, image |-> images[p]]
      BY <2>1 DEF Stored
    <3>2. Row(c, p).date \in Dates
      BY <1>1 DEF Row, Record
    <3> QED
      BY <3>1, <3>2 DEF Doc, FreshFor, Row
  <2>2. CASE p \notin which
    <3>1. docs'[p] = docs[p]
      BY <2>2 DEF Stored
    <3> QED
      BY <3>1 DEF ImagesInv, Documents
  <2> QED
    BY <2>1, <2>2
<1>3. docs' = [p \in Products |-> docs'[p]]
  BY DEF Stored
<1> QED
  BY <1>2, <1>3 DEF Documents

LEMMA ReportKeeps ==
    ASSUME ImagesInv, NEW c \in Configs, NEW new,
           {"status", "total"} \subseteq DOMAIN new,
           job[c].snap = Active(c) /\ new.status \in {"running", "complete"}
              => new.total = Cardinality(WithUrl(c, Active(c))),
           imaging' = Report(c, new), taken' = taken
    PROVE  Reports'
<1>1. Reports
  BY DEF ImagesInv
<1>2. CASE job[c].snap # Active(c)
  BY <1>1, <1>2 DEF Report, Reports, TotalDescribesActive, Active, WithUrl, Exists
<1>3. CASE job[c].snap = Active(c)
  <2>1. imaging' = [imaging EXCEPT ![c] = new]
    BY <1>3 DEF Report
  <2>2. DOMAIN imaging' = Configs /\ imaging' = [d \in Configs |-> imaging'[d]]
    BY <1>1, <2>1 DEF Reports
  <2>3. \A d \in Configs : imaging'[d] = IF d = c THEN new ELSE imaging[d]
    BY <1>1, <2>1 DEF Reports
  <2>4. \A d \in Configs :
           /\ {"status", "total"} \subseteq DOMAIN imaging'[d]
           /\ imaging'[d].status \in {"running", "complete"} =>
                 imaging'[d].total = Cardinality(WithUrl(d, Active(d)))
    BY <1>1, <1>3, <2>3 DEF Reports, TotalDescribesActive
  <2> QED
    BY <2>2, <2>4 DEF Reports, TotalDescribesActive, Active, WithUrl, Exists
<1> QED
  BY <1>2, <1>3

LEMMA SameMarks ==
    ASSUME ImagesInv, shown' = shown, taken' = taken
    PROVE  Marks'
  BY DEF ImagesInv, Marks, Active, Exists, FreshFor

LEMMA SameReports ==
    ASSUME ImagesInv, imaging' = imaging, taken' = taken
    PROVE  Reports'
  BY DEF ImagesInv, Reports, TotalDescribesActive, Active, WithUrl, Exists

LEMMA SameDocuments ==
    ASSUME ImagesInv, docs' = docs
    PROVE  Documents'
  BY DEF ImagesInv, Documents

-----------------------------------------------------------------------------
(* The steps of an image job. *)

LEMMA JobBeginsKeeps ==
    ASSUME ImagesInv, NEW c \in Configs, JobBegins(c)
    PROVE  ImagesInv'
<1> DEFINE item == Head(queue[c])
           new == [NoJob EXCEPT !.step = "start", !.snap = item.snap,
                                !.token = item.token]
<1>1. /\ queue[c] \in Seq([snap : Nat, token : Nat]) /\ queue[c] # <<>>
      /\ \A i \in DOMAIN queue[c] : queue[c][i].snap \in 1..Active(c)
  BY DEF ImagesInv, Queues, JobBegins
<1>2. item \in [snap : Nat, token : Nat] /\ item.snap \in 1..Active(c)
  <2>1. 1 \in DOMAIN queue[c] /\ 1 \in 1..Len(queue[c]) /\ item = queue[c][1]
    BY <1>1
  <2>2. queue[c][1] \in [snap : Nat, token : Nat]
    BY <1>1, <2>1, ElementOfSeq, Zenon
  <2>3. queue[c][1].snap \in 1..Active(c)
    BY <1>1, <2>1
  <2> QED
    BY <2>1, <2>2, <2>3
<1>3. Shaped(new) /\ Holds(c, new)
  BY <1>2, NoImagesFit DEF NoJob, Shaped, Holds
<1>4. job' = [job EXCEPT ![c] = new] /\ queue' = [queue EXCEPT ![c] = Tail(@)]
      /\ UNCHANGED <<odooVars, passVars, shown, docs, imaging>>
  BY DEF JobBegins
<1> HIDE DEF item, new
<1>5. job = [d \in Configs |-> job[d]] /\ DOMAIN job = Configs
  BY DEF ImagesInv, Jobs
<1>6. Jobs'
  <2>1. DOMAIN job' = Configs /\ job' = [d \in Configs |-> job'[d]]
    BY <1>4, <1>5
  <2>2. ASSUME NEW d \in Configs
        PROVE  Shaped(job'[d]) /\ (job'[d].step # "none" => Holds(d, job'[d]))
    <3>1. CASE d = c
      BY <1>3, <1>4, <1>5, <3>1
    <3>2. CASE d # c
      <4>1. job'[d] = job[d]
        BY <1>4, <1>5, <3>2
      <4> QED
        BY <4>1 DEF ImagesInv, Jobs
    <3> QED
      BY <3>1, <3>2
  <2>3. taken' = taken
    BY <1>4 DEF passVars
  <2>4. \A d \in Configs : Shaped(job'[d]) <=> Shaped(job[d])'
    BY DEF Shaped
  <2>5. \A d \in Configs : Holds(d, job'[d]) <=> Holds(d, job[d])'
    BY <2>3 DEF Holds, FreshFor, Active, WithUrl, Exists
  <2> QED
    BY <2>1, <2>2, <2>4, <2>5 DEF Jobs
<1>7. Queues'
  <2>1. Tail(queue[c]) \in Seq([snap : Nat, token : Nat])
    BY <1>1
  <2>2. \A i \in DOMAIN Tail(queue[c]) : Tail(queue[c])[i].snap \in 1..Active(c)
    BY <1>1
  <2>3. queue \in [Configs -> Seq([snap : Nat, token : Nat])]
        /\ token' = token /\ session' = session /\ taken' = taken
    BY <1>4 DEF ImagesInv, Queues, odooVars, passVars
  <2>4. queue' \in [Configs -> Seq([snap : Nat, token : Nat])]
    BY <1>4, <2>1, <2>3
  <2>5. \A d \in Configs : queue'[d] = IF d = c THEN Tail(queue[c]) ELSE queue[d]
    BY <1>4, <2>3
  <2>6. \A d \in Configs : \A i \in DOMAIN queue'[d] :
           queue'[d][i].snap \in 1..Active(d)
    BY <2>2, <2>5 DEF ImagesInv, Queues
  <2> QED
    BY <2>3, <2>4, <2>6 DEF ImagesInv, Queues, Active
<1>8. Records' /\ Documents' /\ Marks' /\ Reports'
  BY <1>4, SameMarks, SameDocuments, SameReports
     DEF ImagesInv, Records, odooVars, passVars
<1> QED
  BY <1>6, <1>7, <1>8 DEF ImagesInv

LEMMA JobStartKeeps ==
    ASSUME ImagesInv, NEW c \in Configs, JobStart(c)
    PROVE  ImagesInv'
<1> DEFINE n == Cardinality(WithUrl(c, job[c].snap))
           fields == [step |-> "list", total |-> n]
           report == [status |-> "running", total |-> n, synced |-> 0, failed |-> 0]
<1>1. /\ job[c].step = "start" /\ imaging' = Report(c, report)
      /\ job' = [job EXCEPT ![c] = With(job[c], fields)]
      /\ UNCHANGED <<shown, docs, odoo, changes, taken, token, session, queue>>
  BY DEF JobStart, Step, JobOnly, odooVars, passVars
<1>2. Shaped(With(job[c], fields)) /\ Holds(c, With(job[c], fields))
  BY <1>1, HoldsOn
<1>3. Reports'
  BY <1>1, ReportKeeps
<1> QED
  BY <1>1, <1>2, <1>3, SameMarks, SameDocuments, JobKeeps

LEMMA JobListKeeps ==
    ASSUME ImagesInv, NEW c \in Configs, JobList(c)
    PROVE  ImagesInv'
<1> DEFINE fields == IF NextBatch(c) = <<>>
                     THEN [step |-> "complete"]
                     ELSE [ step |-> "link", batch |-> Range(NextBatch(c)),
                            offset |-> job[c].offset + Len(NextBatch(c)) ]
<1>1. /\ job[c].step = "list"
      /\ job' = [job EXCEPT ![c] = With(job[c], fields)]
      /\ UNCHANGED <<shown, docs, imaging, odoo, changes, taken, token, session, queue>>
  BY DEF JobList, Step, JobOnly, odooVars, passVars
<1>2. Shaped(With(job[c], fields)) /\ Holds(c, With(job[c], fields))
  BY <1>1, HoldsOn
<1> QED
  BY <1>1, <1>2, SameMarks, SameDocuments, SameReports, JobKeeps

LEMMA JobLinkKeeps ==
    ASSUME ImagesInv, NEW c \in Configs, JobLink(c)
    PROVE  ImagesInv'
<1> DEFINE links == [p \in Products |->
                        IF p \in job[c].batch /\ Linkable(c, p)
                        THEN docs[p].image ELSE {}]
           fields == [step |-> "linkRows", links |-> links]
<1>1. /\ job[c].step = "link"
      /\ job' = [job EXCEPT ![c] = With(job[c], fields)]
      /\ UNCHANGED <<shown, docs, imaging, odoo, changes, taken, token, session, queue>>
  BY DEF JobLink, Step, JobOnly, odooVars, passVars
<1>2. links \in [Products -> Image]
  BY DEF ImagesInv, Documents, Doc, Image
<1>3. FreshFor(c, job[c].snap, links)
  BY DEF ImagesInv, Documents, FreshFor, Linkable, Row
<1> HIDE DEF links
<1>4. Shaped(With(job[c], fields)) /\ Holds(c, With(job[c], fields))
  BY <1>1, <1>2, <1>3, HoldsOn
<1> QED
  BY <1>1, <1>4, SameMarks, SameDocuments, SameReports, JobKeeps

LEMMA JobLinkRowsKeeps ==
    ASSUME ImagesInv, NEW c \in Configs, JobLinkRows(c)
    PROVE  ImagesInv'
<1> DEFINE fields == [ step |-> "need", links |-> NoImages,
                       synced |-> job[c].synced + Cardinality(Given(job[c].links)) ]
<1>1. /\ job[c].step = "linkRows"
      /\ shown' = Marked(c, job[c].links, Given(job[c].links))
      /\ job' = [job EXCEPT ![c] = With(job[c], fields)]
      /\ UNCHANGED <<docs, imaging, odoo, changes, taken, token, session, queue>>
  BY DEF JobLinkRows, Step, JobOnly, odooVars, passVars
<1>2. Shaped(job[c]) /\ Holds(c, job[c])
  BY <1>1 DEF ImagesInv, Jobs
<1>3. Shaped(With(job[c], fields)) /\ Holds(c, With(job[c], fields))
  BY <1>1, HoldsOn, NoImagesFit
<1>4. Marks'
  BY <1>1, <1>2, MarkedKeeps DEF Shaped, Holds
<1> QED
  BY <1>1, <1>3, <1>4, SameDocuments, SameReports, JobKeeps

LEMMA JobNeedKeeps ==
    ASSUME ImagesInv, NEW c \in Configs, JobNeed(c)
    PROVE  ImagesInv'
<1> DEFINE need == {p \in job[c].batch : Needed(c, p)}
           fields == IF need = {} THEN [step |-> "list", batch |-> {}]
                                  ELSE [step |-> "fetch", need |-> need]
<1>1. /\ job[c].step = "need"
      /\ job' = [job EXCEPT ![c] = With(job[c], fields)]
      /\ UNCHANGED <<shown, docs, imaging, odoo, changes, taken, token, session, queue>>
  BY DEF JobNeed, Step, JobOnly, odooVars, passVars
<1> HIDE DEF need
<1>2. Shaped(With(job[c], fields)) /\ Holds(c, With(job[c], fields))
  BY <1>1, HoldsOn
<1> QED
  BY <1>1, <1>2, SameMarks, SameDocuments, SameReports, JobKeeps

(* What is fetched is Odoo's present image, as new as any snapshot's. *)
LEMMA JobFetchKeeps ==
    ASSUME ImagesInv, NEW c \in Configs, JobFetch(c)
    PROVE  ImagesInv'
<1> DEFINE need == job[c].need
<1>1. PICK failing \in SUBSET need, got \in [need -> UNION {Answers(p) : p \in need}] :
         /\ \A p \in need : got[p] \in Answers(p)
         /\ Step(c, [ step |-> "store", to_do |-> {"docs", "rows"},
                      need |-> need \ failing, got |-> With(NoImages, got),
                      failed |-> job[c].failed + Cardinality(failing) ])
  BY DEF JobFetch
<1> DEFINE fields == [ step |-> "store", to_do |-> {"docs", "rows"},
                       need |-> need \ failing, got |-> With(NoImages, got),
                       failed |-> job[c].failed + Cardinality(failing) ]
<1>2. /\ job[c].step = "fetch"
      /\ job' = [job EXCEPT ![c] = With(job[c], fields)]
      /\ UNCHANGED <<shown, docs, imaging, odoo, changes, taken, token, session, queue>>
  BY <1>1 DEF JobFetch, Step, odooVars, passVars
<1>3. /\ DOMAIN With(NoImages, got) = Products
      /\ \A p \in Products :
            With(NoImages, got)[p] = IF p \in need THEN got[p] ELSE {}
  BY Changed DEF NoImages
<1>4. ASSUME NEW p \in Products
      PROVE  With(NoImages, got)[p] \in {{}, {odoo[p].date}}
  BY <1>1, <1>3 DEF Answers
<1>5. \A p \in Products : odoo[p].date \in Dates
  BY DEF ImagesInv, Records, Record
<1>6. With(NoImages, got) \in [Products -> Image]
  <2>1. \A p \in Products : With(NoImages, got)[p] \in Image
    BY <1>4, <1>5 DEF Image
  <2> QED
    BY <1>3, <2>1 DEF With
<1>7. FreshFor(c, job[c].snap, With(NoImages, got))
  <2>1. job[c].snap \in 1..Len(taken[c])
    BY <1>2 DEF ImagesInv, Jobs, Holds, Active
  <2>2. \A p \in Products : taken[c][job[c].snap][p].date <= odoo[p].date
    BY <2>1 DEF ImagesInv, Records
  <2>3. ASSUME NEW p \in Products
        PROVE  taken[c][job[c].snap][p].date \in Dates
    <3>1. taken[c] \in Seq([Products -> Record])
      BY DEF ImagesInv, Records
    <3>2. taken[c][job[c].snap] \in [Products -> Record]
      BY <2>1, <3>1
    <3> QED
      BY <3>2 DEF Record
  <2> QED
    BY <1>4, <1>5, <2>2, <2>3 DEF FreshFor, Dates
<1> HIDE DEF need
<1>8. Shaped(With(job[c], fields)) /\ Holds(c, With(job[c], fields))
  BY <1>2, <1>6, <1>7, HoldsOn
<1> QED
  BY <1>2, <1>8, SameMarks, SameDocuments, SameReports, JobKeeps

LEMMA JobStoreKeeps ==
    ASSUME ImagesInv, NEW c \in Configs, NEW what \in {"docs", "rows"},
           JobStore(c, what)
    PROVE  ImagesInv'
<1> DEFINE images == Images(c)
           left   == job[c].to_do \ {what}
           null   == job[c].need \ images
           fields == IF left # {} THEN [to_do |-> left]
                     ELSE [ step |-> "remove", to_do |-> {"docs", "rows"},
                            need |-> null,
                            synced |-> job[c].synced + Cardinality(images)
                               + Cardinality({p \in null : docs'[p].stored}) ]
<1>1. /\ job[c].step = "store"
      /\ docs' = IF what = "docs" THEN Stored(c, job[c].got, images) ELSE docs
      /\ shown' = IF what = "rows" THEN Marked(c, job[c].got, images) ELSE shown
      /\ job' = [job EXCEPT ![c] = With(job[c], fields)]
      /\ UNCHANGED <<imaging, odoo, changes, taken, token, session, queue>>
  BY DEF JobStore, Step, JobOnly, odooVars, passVars
<1> HIDE DEF images, left, null
<1>2. Shaped(job[c]) /\ Holds(c, job[c])
  BY <1>1 DEF ImagesInv, Jobs
<1>3. Shaped(With(job[c], fields)) /\ Holds(c, With(job[c], fields))
  BY <1>1, HoldsOn
<1>4. Marks'
  BY <1>1, <1>2, MarkedKeeps, SameMarks DEF Shaped, Holds
<1>5. Documents'
  BY <1>1, <1>2, StoredKeeps, SameDocuments DEF Shaped, Holds
<1> HIDE DEF fields
<1> QED
  BY <1>1, <1>3, <1>4, <1>5, SameReports, JobKeeps

LEMMA JobRemoveKeeps ==
    ASSUME ImagesInv, NEW c \in Configs, NEW what \in {"docs", "rows"},
           JobRemove(c, what)
    PROVE  ImagesInv'
<1> DEFINE left == job[c].to_do \ {what}
           fields == IF left # {} THEN [to_do |-> left]
                     ELSE [ step |-> "list", to_do |-> {}, batch |-> {},
                            need |-> {}, got |-> NoImages ]
<1>1. /\ job[c].step = "remove"
      /\ docs' = IF what = "docs" THEN Stored(c, NoImages, job[c].need) ELSE docs
      /\ shown' = IF what = "rows" THEN Marked(c, NoImages, job[c].need) ELSE shown
      /\ job' = [job EXCEPT ![c] = With(job[c], fields)]
      /\ UNCHANGED <<imaging, odoo, changes, taken, token, session, queue>>
  BY DEF JobRemove, Step, JobOnly, odooVars, passVars
<1> HIDE DEF left
<1>2. Shaped(With(job[c], fields)) /\ Holds(c, With(job[c], fields))
  BY <1>1, HoldsOn, NoImagesFit
<1>3. Marks'
  BY <1>1, MarkedKeeps, SameMarks, NoImagesFit
<1>4. Documents'
  BY <1>1, StoredKeeps, SameDocuments, NoImagesFit
<1> HIDE DEF fields
<1> QED
  BY <1>1, <1>2, <1>3, <1>4, SameReports, JobKeeps

(* A job ends, complete or not. *)
LEMMA JobGone ==
    ASSUME ImagesInv, NEW c \in Configs, job' = [job EXCEPT ![c] = NoJob],
           UNCHANGED <<odoo, changes, taken, token, session, queue>>,
           Documents', Marks', Reports'
    PROVE  ImagesInv'
<1>1. Shaped(NoJob) /\ NoJob.step = "none"
  BY NoImagesFit DEF Shaped, NoJob
<1> QED
  BY <1>1, JobKeeps

LEMMA JobCompleteKeeps ==
    ASSUME ImagesInv, NEW c \in Configs, JobComplete(c)
    PROVE  ImagesInv'
<1> DEFINE new == [ status |-> IF job[c].failed > 0 THEN "failed" ELSE "complete",
                    total |-> job[c].total, synced |-> job[c].synced,
                    failed |-> job[c].failed ]
<1>1. /\ job[c].step = "complete" /\ imaging' = Report(c, new)
      /\ job' = [job EXCEPT ![c] = NoJob]
      /\ UNCHANGED <<shown, docs, odoo, changes, taken, token, session, queue>>
  BY DEF JobComplete, JobOnly, odooVars, passVars
<1>2. job[c].snap = Active(c) => job[c].total = Cardinality(WithUrl(c, Active(c)))
  BY <1>1 DEF ImagesInv, Jobs, Holds
<1>3. Reports'
  BY <1>1, <1>2, ReportKeeps
<1> QED
  BY <1>1, <1>3, SameMarks, SameDocuments, JobGone

LEMMA WritingFits ==
    ASSUME ImagesInv, NEW c \in Configs, job[c].step # "none"
    PROVE  /\ Writing(c) \in [Products -> Image]
           /\ FreshFor(c, job[c].snap, Writing(c))
<1>1. Shaped(job[c]) /\ Holds(c, job[c])
  BY DEF ImagesInv, Jobs
<1> QED
  BY <1>1, NoImagesFit DEF Writing, Shaped, Holds

LEMMA JobThrowsKeeps ==
    ASSUME ImagesInv, NEW c \in Configs, JobThrows(c)
    PROVE  ImagesInv'
<1>1. /\ job[c].step # "none"
      /\ job' = [job EXCEPT ![c] = NoJob]
      /\ UNCHANGED <<imaging, odoo, changes, taken, token, session, queue>>
  BY DEF JobThrows, odooVars, passVars
<1>2. Documents'
  <2>1. PICK some : docs' = Stored(c, Writing(c), some)
    BY DEF JobThrows
  <2> QED BY <1>1, <2>1, WritingFits, StoredKeeps
<1>3. Marks'
  <2>1. PICK some : shown' = Marked(c, Writing(c), some)
    BY DEF JobThrows
  <2> QED BY <1>1, <2>1, WritingFits, MarkedKeeps
<1> QED
  BY <1>1, <1>2, <1>3, SameReports, JobGone

-----------------------------------------------------------------------------
(* Steps outside the jobs. *)

(* A job of another snapshot than the active one has no total to keep.     *)
LEMMA JobsKept ==
    ASSUME ImagesInv, job' = job, taken' \in [Configs -> Seq([Products -> Record])],
           \A d \in Configs :
              \/ taken'[d] = taken[d]
              \/ /\ Len(taken'[d]) = Len(taken[d]) + 1
                 /\ \A s \in 1..Len(taken[d]) : taken'[d][s] = taken[d][s]
    PROVE  Jobs'
<1>1. ASSUME NEW d \in Configs, job[d].step # "none"
      PROVE  Holds(d, job[d])'
  <2>1. Holds(d, job[d])
    BY <1>1 DEF ImagesInv, Jobs
  <2>2. CASE taken'[d] = taken[d]
    BY <2>1, <2>2 DEF Holds, FreshFor, Active, WithUrl, Exists
  <2>3. CASE /\ Len(taken'[d]) = Len(taken[d]) + 1
             /\ \A s \in 1..Len(taken[d]) : taken'[d][s] = taken[d][s]
    <3>1. Len(taken[d]) \in Nat /\ job[d].snap \in 1..Len(taken[d])
      BY <2>1 DEF Holds, Active, ImagesInv, Records
    <3>2. taken'[d][job[d].snap] = taken[d][job[d].snap]
      BY <2>3, <3>1
    <3>3. job[d].snap \in 1..Len(taken'[d]) /\ job[d].snap # Len(taken'[d])
      BY <2>3, <3>1
    <3> QED
      BY <2>1, <3>2, <3>3 DEF Holds, FreshFor, Active
  <2> QED
    BY <2>2, <2>3
<1>2. \A d \in Configs : Shaped(job[d])'
  BY DEF ImagesInv, Jobs, Shaped
<1> QED
  BY <1>1, <1>2 DEF ImagesInv, Jobs

LEMMA OdooImageKeeps ==
    ASSUME ImagesInv, NEW p \in Products, NEW has \in BOOLEAN, OdooImage(p, has)
    PROVE  ImagesInv'
<1> DEFINE new == [date |-> changes + 1, url |-> has]
<1>1. /\ changes < MaxChanges /\ changes' = changes + 1
      /\ odoo' = [odoo EXCEPT ![p] = new]
      /\ UNCHANGED <<token, taken, session, shown, docs, imaging, queue, job>>
  BY DEF OdooImage, passVars, jobVars
<1>2. Records
  BY DEF ImagesInv
<1>3. changes \in Nat /\ changes' \in Dates /\ new \in Record
  BY <1>1, <1>2, ImagesAssumption DEF Records, Dates, Record
<1>4. odoo' \in [Products -> Record]
  BY <1>1, <1>2, <1>3 DEF Records
<1>5. ASSUME NEW q \in Products
      PROVE  /\ odoo[q].date \in Nat /\ odoo[q].date <= odoo'[q].date
             /\ odoo'[q].date <= changes'
  <2>1. odoo[q].date \in Nat /\ odoo[q].date <= changes
    BY <1>2 DEF Records, Record, Dates
  <2>2. odoo'[q] = IF q = p THEN new ELSE odoo[q]
    BY <1>1, <1>2 DEF Records
  <2>3. odoo'[q].date = IF q = p THEN changes + 1 ELSE odoo[q].date
    BY <2>2
  <2> QED
    BY <1>1, <1>3, <2>1, <2>3
<1>6. ASSUME NEW c \in Configs, NEW s \in 1..Len(taken[c]), NEW q \in Products
      PROVE  taken[c][s][q].date <= odoo'[q].date
  <2>1. taken[c] \in Seq([Products -> Record])
    BY <1>2 DEF Records
  <2>2. taken[c][s] \in [Products -> Record]
    BY <2>1
  <2>3. taken[c][s][q].date \in Nat /\ odoo'[q].date \in Nat
    BY <1>4, <2>2 DEF Record, Dates
  <2>4. taken[c][s][q].date <= odoo[q].date
    BY <1>2 DEF Records
  <2> QED
    BY <1>5, <2>3, <2>4
<1>7. Records'
  BY <1>1, <1>2, <1>3, <1>4, <1>5, <1>6 DEF Records
<1>8. Queues' /\ Jobs'
  BY <1>1, <1>2, JobsKept DEF Records, ImagesInv, Queues, Active
<1> QED
  BY <1>1, <1>7, <1>8, SameMarks, SameDocuments, SameReports DEF ImagesInv

(* Steps of the passes and of the failure marks that publish nothing. *)
LEMMA PassKeeps ==
    ASSUME ImagesInv, UNCHANGED <<odoo, changes, taken, shown, docs, job>>,
           Queues', Reports'
    PROVE  ImagesInv'
<1>1. Records' /\ Jobs'
  BY JobsKept DEF ImagesInv, Records
<1> QED
  BY <1>1, SameMarks, SameDocuments DEF ImagesInv

LEMMA ScheduleKeeps ==
    ASSUME ImagesInv, NEW c \in Configs, NEW s \in Nat, Schedule(c, s),
           s \in 1..Len(taken'[c]),
           \A d \in Configs : Len(taken'[d]) \in Nat /\ Len(taken[d]) <= Len(taken'[d]),
           token' = token, session' = session
    PROVE  Queues'
<1>1. Queues /\ \A d \in Configs : Len(taken[d]) \in Nat
  BY DEF ImagesInv, Records
<1>2. PICK t \in session :
         queue' = [queue EXCEPT ![c] = Append(@, [snap |-> s, token |-> t])]
  BY DEF Schedule
<1> DEFINE item == [snap |-> s, token |-> t]
<1>3. item \in [snap : Nat, token : Nat] /\ item.snap = s
  BY <1>1 DEF Queues
<1> HIDE DEF item
<1>4. queue[c] \in Seq([snap : Nat, token : Nat])
  BY <1>1 DEF Queues
<1>5. /\ Append(queue[c], item) \in Seq([snap : Nat, token : Nat])
      /\ \A i \in DOMAIN Append(queue[c], item) :
            Append(queue[c], item)[i] = item \/
            (i \in DOMAIN queue[c] /\ Append(queue[c], item)[i] = queue[c][i])
  BY <1>3, <1>4
<1>6. queue' \in [Configs -> Seq([snap : Nat, token : Nat])]
  BY <1>1, <1>2, <1>5 DEF Queues, item
<1>7. ASSUME NEW d \in Configs, NEW i \in DOMAIN queue'[d]
      PROVE  queue'[d][i].snap \in 1..Len(taken'[d])
  <2>1. CASE d # c
    <3>1. queue'[d] = queue[d]
      BY <1>1, <1>2, <2>1 DEF Queues
    <3>2. queue[d][i].snap \in 1..Len(taken[d])
      BY <1>1, <1>7, <3>1 DEF Queues, Active
    <3> QED
      BY <1>1, <3>1, <3>2
  <2>2. CASE d = c
    <3>1. queue'[d] = Append(queue[c], item)
      BY <1>1, <1>2, <2>2 DEF Queues, item
    <3>2. CASE queue'[d][i] = item
      BY <1>3, <2>2, <3>2
    <3>3. CASE i \in DOMAIN queue[c] /\ queue'[d][i] = queue[c][i]
      <4>1. queue[c][i].snap \in 1..Len(taken[c])
        BY <1>1, <3>3 DEF Queues, Active
      <4> QED
        BY <1>1, <2>2, <3>3, <4>1
    <3> QED
      BY <1>5, <1>7, <3>1, <3>2, <3>3
  <2> QED
    BY <2>1, <2>2
<1> QED
  BY <1>1, <1>6, <1>7 DEF Queues, Active

LEMMA ConfigPublishedKeeps ==
    ASSUME ImagesInv, NEW c \in Configs, ConfigPublished(c)
    PROVE  ImagesInv'
<1> DEFINE new == [status |-> "pending", total |-> 0, synced |-> 0, failed |-> 0]
<1>0. PICK rows :
         rows = [s \in Snapshots |-> IF s < Active(c) THEN NoImages ELSE shown[c][s]]
  OBVIOUS
<1>1. /\ taken' = [taken EXCEPT ![c] = Append(@, odoo)]
      /\ shown' = [shown EXCEPT ![c] = rows]
      /\ imaging' = [imaging EXCEPT ![c] = new]
      /\ Schedule(c, Active(c) + 1)
      /\ UNCHANGED <<odoo, changes, token, session, docs, job>>
  BY <1>0 DEF ConfigPublished, odooVars
<1>2. /\ Records /\ Marks /\ Reports
      /\ taken \in [Configs -> Seq([Products -> Record])] /\ odoo \in [Products -> Record]
  BY DEF ImagesInv, Records
<1>3. \A d \in Configs : taken[d] \in Seq([Products -> Record]) /\ Len(taken[d]) \in Nat
  BY <1>2
<1>4. /\ Append(taken[c], odoo) \in Seq([Products -> Record])
      /\ Len(Append(taken[c], odoo)) = Len(taken[c]) + 1
      /\ \A s \in 1..Len(taken[c]) : Append(taken[c], odoo)[s] = taken[c][s]
      /\ Append(taken[c], odoo)[Len(taken[c]) + 1] = odoo
  BY <1>2, <1>3
<1>5. /\ taken' \in [Configs -> Seq([Products -> Record])]
      /\ taken'[c] = Append(taken[c], odoo)
      /\ \A d \in Configs \ {c} : taken'[d] = taken[d]
  BY <1>1, <1>2, <1>4
<1>6. Records'
  <2>1. ASSUME NEW s \in 1..Len(taken'[c]), NEW p \in Products
        PROVE  taken'[c][s][p].date <= odoo[p].date
    <3>1. CASE s \in 1..Len(taken[c])
      BY <1>2, <1>4, <1>5, <3>1 DEF Records
    <3>2. CASE s = Len(taken[c]) + 1
      <4>1. odoo[p].date \in Nat
        BY <1>2 DEF Record, Dates
      <4> QED
        BY <1>4, <1>5, <3>2, <4>1
    <3> QED
      BY <1>3, <1>4, <1>5, <3>1, <3>2
  <2> QED
    BY <1>1, <1>2, <1>5, <2>1 DEF Records
<1>7. Marks'
  <2>1. shown \in [Configs -> [Snapshots -> [Products -> Image]]]
    BY <1>2 DEF Marks
  <2>2. rows \in [Snapshots -> [Products -> Image]]
    BY <1>0, <2>1, NoImagesFit
  <2>3. /\ shown' \in [Configs -> [Snapshots -> [Products -> Image]]]
        /\ \A d \in Configs : shown'[d] = IF d = c THEN rows ELSE shown[d]
    BY <1>1, <2>1, <2>2
  <2>4. ASSUME NEW s \in Snapshots
        PROVE  IF s \in 1..Len(taken'[c])
               THEN Exists(c, s)' => FreshFor(c, s, rows[s])'
               ELSE rows[s] = NoImages
    <3>1. Len(taken[c]) \in Nat /\ s \in Nat /\ s >= 1 /\ Len(taken'[c]) = Len(taken[c]) + 1
      BY <1>3, <1>4, <1>5, ImagesAssumption DEF Snapshots
    <3>2. CASE s < Len(taken[c])
      <4>1. ~Exists(c, s)'
        BY <1>3, <1>5, <3>1, <3>2 DEF Exists, Active
      <4>2. s \in 1..Len(taken'[c])
        BY <3>1, <3>2
      <4> QED
        BY <4>1, <4>2
    <3>3. CASE s = Len(taken[c])
      <4>1. rows[s] = shown[c][s] /\ Exists(c, s) /\ s \in 1..Active(c)
        BY <1>0, <3>1, <3>3 DEF Active, Exists
      <4>2. FreshFor(c, s, rows[s])
        BY <1>2, <4>1 DEF Marks
      <4>3. taken'[c][s] = taken[c][s] /\ s \in 1..Len(taken'[c])
        BY <1>4, <1>5, <3>1, <3>3
      <4> QED
        BY <4>2, <4>3 DEF FreshFor
    <3>4. CASE s > Len(taken[c])
      <4>1. rows[s] = NoImages
        BY <1>0, <1>2, <3>1, <3>4 DEF Marks, Active
      <4>2. FreshFor(c, s, rows[s])'
        BY <4>1 DEF FreshFor, NoImages
      <4> QED
        BY <4>1, <4>2
    <3> QED
      BY <3>1, <3>2, <3>3, <3>4
  <2>5. ASSUME NEW d \in Configs \ {c}, NEW s \in Snapshots
        PROVE  IF s \in 1..Len(taken'[d])
               THEN Exists(d, s)' => FreshFor(d, s, shown[d][s])'
               ELSE shown'[d][s] = NoImages
    BY <1>2, <1>5, <2>3 DEF Marks, Active, Exists, FreshFor
  <2>6. ASSUME NEW d \in Configs, NEW s \in Snapshots
        PROVE  IF s \in 1..Active(d)' THEN Exists(d, s)' => FreshFor(d, s, shown[d][s])'
                                      ELSE shown'[d][s] = NoImages
    <3>1. CASE d = c
      BY <2>3, <2>4, <3>1 DEF Active, FreshFor
    <3>2. CASE d # c
      BY <2>3, <2>5, <3>2 DEF Active, FreshFor
    <3> QED
      BY <3>1, <3>2
  <2> QED
    BY <2>3, <2>6 DEF Marks
<1>8. Queues'
  BY <1>1, <1>3, <1>4, <1>5, ScheduleKeeps DEF Active
<1>9. Jobs'
  BY <1>1, <1>4, <1>5, JobsKept
<1>10. Reports'
  <2>1. /\ DOMAIN imaging' = Configs /\ imaging' = [d \in Configs |-> imaging'[d]]
        /\ \A d \in Configs : imaging'[d] = IF d = c THEN new ELSE imaging[d]
    BY <1>1, <1>2 DEF Reports
  <2>2. ASSUME NEW d \in Configs
        PROVE  /\ {"status", "total"} \subseteq DOMAIN imaging'[d]
               /\ imaging'[d].status \in {"running", "complete"} =>
                     imaging'[d].total = Cardinality(WithUrl(d, Active(d))')
    <3>1. CASE d = c
      BY <2>1, <3>1
    <3>2. CASE d # c
      BY <1>2, <1>5, <2>1, <3>2
         DEF Reports, TotalDescribesActive, WithUrl, Active, Exists
    <3> QED
      BY <3>1, <3>2
  <2> QED
    BY <2>1, <2>2 DEF Reports, TotalDescribesActive
<1>11. Documents'
  BY <1>1, SameDocuments
<1> QED
  BY <1>6, <1>7, <1>8, <1>9, <1>10, <1>11 DEF ImagesInv

LEMMA ConfigUnchangedKeeps ==
    ASSUME ImagesInv, NEW c \in Configs, ConfigUnchanged(c)
    PROVE  ImagesInv'
<1>1. /\ Schedule(c, Active(c)) /\ taken[c] # <<>>
      /\ UNCHANGED <<odoo, changes, token, session, taken, shown, docs, imaging, job>>
  BY DEF ConfigUnchanged, UpToDate, odooVars
<1>2. \A d \in Configs : taken[d] \in Seq([Products -> Record])
  BY DEF ImagesInv, Records
<1>3. Active(c) \in 1..Len(taken[c]) /\ \A d \in Configs : Len(taken[d]) \in Nat
  BY <1>1, <1>2 DEF Active
<1>4. Queues'
  BY <1>1, <1>3, ScheduleKeeps
<1> QED
  BY <1>1, <1>4, SameReports, PassKeeps

LEMMA MarkFailedKeeps ==
    ASSUME ImagesInv, NEW c \in Configs, MarkFailed(c)
    PROVE  ImagesInv'
<1>1. /\ imaging' = [imaging EXCEPT ![c].status = "failed"] \/ imaging' = imaging
      /\ UNCHANGED <<odoo, changes, token, session, taken, shown, docs, queue, job>>
  BY DEF MarkFailed, odooVars, passVars
<1>2. Queues'
  BY <1>1 DEF ImagesInv, Queues, Active
<1>3. Reports'
  <2>1. CASE imaging' = imaging
    BY <1>1, <2>1, SameReports
  <2>2. CASE imaging' = [imaging EXCEPT ![c].status = "failed"]
    <3>1. /\ DOMAIN imaging = Configs /\ "status" \in DOMAIN imaging[c]
          /\ Reports
      BY DEF ImagesInv, Reports
    <3>2. DOMAIN imaging' = Configs /\ imaging' = [d \in Configs |-> imaging'[d]]
      BY <2>2, <3>1
    <3>3. /\ imaging'[c].status = "failed" /\ DOMAIN imaging'[c] = DOMAIN imaging[c]
          /\ \A d \in Configs \ {c} : imaging'[d] = imaging[d]
      BY <2>2, <3>1
    <3> QED
      BY <1>1, <3>1, <3>2, <3>3
         DEF Reports, TotalDescribesActive, Active, WithUrl, Exists
  <2> QED
    BY <1>1, <2>1, <2>2
<1> QED
  BY <1>1, <1>2, <1>3, PassKeeps

LEMMA RestartKeeps ==
    ASSUME ImagesInv, Restart
    PROVE  ImagesInv'
<1>1. /\ session' = {} /\ queue' = [c \in Configs |-> <<>>]
      /\ job' = [c \in Configs |-> NoJob]
      /\ UNCHANGED <<odoo, changes, token, taken, shown, docs, imaging>>
  BY DEF Restart, odooVars
<1>2. Queues'
  BY <1>1 DEF ImagesInv, Queues
<1>3. Jobs'
  <2>1. Shaped(NoJob) /\ NoJob.step = "none"
    BY NoImagesFit DEF Shaped, NoJob
  <2>2. \A c \in Configs : job'[c] = NoJob
    BY <1>1
  <2>3. DOMAIN job' = Configs /\ job' = [c \in Configs |-> job'[c]]
    BY <1>1
  <2>4. \A c \in Configs : Shaped(job[c])' /\ job'[c].step = "none"
    BY <2>1, <2>2 DEF Shaped
  <2> QED
    BY <2>3, <2>4 DEF Jobs
<1>4. Records'
  BY <1>1 DEF ImagesInv, Records
<1> QED
  BY <1>1, <1>2, <1>3, <1>4, SameMarks, SameDocuments, SameReports DEF ImagesInv

-----------------------------------------------------------------------------
(* The invariant of the specification, and what it implies. *)

LEMMA NextKeeps == ImagesInv /\ [Next]_vars => ImagesInv'
<1> SUFFICES ASSUME ImagesInv, [Next]_vars PROVE ImagesInv'
  OBVIOUS
<1>1. ASSUME NEW p \in Products, NEW has \in BOOLEAN, OdooImage(p, has) PROVE ImagesInv'
  BY <1>1, OdooImageKeeps
<1>2. CASE SessionRevoked
  <2>1. /\ token' = token + 1
        /\ UNCHANGED <<odoo, changes, session, taken, shown, docs, imaging, queue, job>>
    BY <1>2 DEF SessionRevoked, passVars, jobVars
  <2>2. Queues'
    BY <2>1 DEF ImagesInv, Queues, Active
  <2> QED
    BY <2>1, <2>2, SameReports, PassKeeps
<1>3. ASSUME NEW s \in SUBSET (0..token), PassBegins(s) PROVE ImagesInv'
  <2>1. /\ session' = s
        /\ UNCHANGED <<odoo, changes, token, taken, shown, docs, imaging, queue, job>>
    BY <1>3 DEF PassBegins, odooVars, jobVars
  <2>2. Queues'
    BY <2>1 DEF ImagesInv, Queues, Active
  <2> QED
    BY <2>1, <2>2, SameReports, PassKeeps
<1>4. CASE PassThrows
  <2>1. /\ session' = {}
        /\ UNCHANGED <<odoo, changes, token, taken, shown, docs, imaging, queue, job>>
    BY <1>4 DEF PassThrows, AfterFailure, odooVars, jobVars
  <2>2. Queues'
    BY <2>1 DEF ImagesInv, Queues, Active
  <2> QED
    BY <2>1, <2>2, SameReports, PassKeeps
<1>5. CASE UNCHANGED <<odoo, changes, token, session, taken, shown, docs, imaging, queue, job>>
  <2>1. Queues'
    BY <1>5 DEF ImagesInv, Queues, Active
  <2> QED
    BY <1>5, <2>1, SameReports, PassKeeps
<1>6. CASE PassEnds \/ (\E c \in Configs : ConfigLocked(c)) \/ UNCHANGED vars
  BY <1>5, <1>6 DEF PassEnds, ConfigLocked, vars, odooVars, passVars, jobVars
<1>7. ASSUME NEW c \in Configs, ConfigPublished(c) \/ ConfigUnchanged(c) PROVE ImagesInv'
  BY <1>7, ConfigPublishedKeeps, ConfigUnchangedKeeps
<1>8. ASSUME NEW c \in Configs, JobStep(c) PROVE ImagesInv'
  BY <1>8, JobBeginsKeeps, JobStartKeeps, JobListKeeps, JobLinkKeeps, JobLinkRowsKeeps,
     JobNeedKeeps, JobFetchKeeps, JobStoreKeeps, JobRemoveKeeps, JobCompleteKeeps
     DEF JobStep
<1>9. ASSUME NEW c \in Configs, JobThrows(c) \/ MarkFailed(c) PROVE ImagesInv'
  BY <1>9, JobThrowsKeeps, MarkFailedKeeps
<1>10. CASE Restart
  BY <1>10, RestartKeeps
<1> QED
  BY <1>1, <1>2, <1>3, <1>4, <1>6, <1>7, <1>8, <1>9, <1>10
     DEF Next, PassStep, PassFails, PassRefused

(* What passes, Odoo's changes, image jobs, throwing calls and restarts    *)
(* keep: every image a job holds or a row is marked with is as new as its  *)
(* record asks, and every counted total is that of its snapshot.           *)
THEOREM ImagesInvariant == Spec => []ImagesInv
  BY InitHolds, NextKeeps, PTL DEF Spec

(* No row of a snapshot that still exists is marked with an image older    *)
(* than the one its record asks for: whatever jobs of older snapshots, of  *)
(* other configs or of a process that died wrote to the shared documents   *)
(* in between (syncImagesForProducts and the image writes it awaits).      *)
THEOREM NeverStale == Spec => []NoStaleImage
<1>1. ImagesInv => NoStaleImage
  BY DEF ImagesInv, Marks, FreshFor, NoStaleImage, Exists
<1> QED
  BY <1>1, ImagesInvariant, PTL

(* While image_sync_status says "running" or "complete", the total beside  *)
(* it counts the products with an image of the active snapshot, though the *)
(* job that reports may be of an older one (markImageSyncStarted and       *)
(* markImageSyncComplete filter on the active snapshot).                   *)
THEOREM TotalsDescribeActive == Spec => []TotalDescribesActive
<1>1. ImagesInv => TotalDescribesActive
  BY DEF ImagesInv, Reports
<1> QED
  BY <1>1, ImagesInvariant, PTL

-----------------------------------------------------------------------------
(* The types.  First what a job lists: the products of its snapshot that   *)
(* have an image, each once.                                               *)

LEMMA RowsTyped ==
    ASSUME ImagesInv, NEW c \in Configs, job[c].step # "none"
    PROVE  /\ job[c].snap \in 1..Active(c)
           /\ taken[c][job[c].snap] \in [Products -> Record]
           /\ \A p \in Products : Row(c, p).date \in Nat
<1>1. /\ taken[c] \in Seq([Products -> Record])
      /\ job[c].snap \in 1..Len(taken[c])
  BY DEF ImagesInv, Records, Jobs, Holds, Active
<1>2. taken[c][job[c].snap] \in [Products -> Record]
  BY <1>1
<1> QED
  BY <1>1, <1>2, ImagesAssumption DEF Active, Row, Record, Dates

LEMMA ListedRows ==
    ASSUME ImagesInv, NEW c \in Configs, job[c].step # "none"
    PROVE  LET rows == WithUrl(c, job[c].snap)
           IN  /\ rows \subseteq Products /\ Cardinality(rows) \in Nat
               /\ Listed(c) \in Seq(rows) /\ Listed(c) \in Seq(Products)
               /\ Len(Listed(c)) = Cardinality(rows)
               /\ Range(Listed(c)) = rows
<1> DEFINE rows == WithUrl(c, job[c].snap)
<1>1. rows \subseteq Products
  BY DEF WithUrl
<1>2. IsFiniteSet(rows) /\ Cardinality(rows) \in Nat
  BY <1>1, ImagesAssumption, FS_Subset, FS_CardinalityType
<1>3. Orders(DateOrder(c), rows)
  <2>1. \A p \in Products : p \in Nat /\ Row(c, p).date \in Nat
    BY RowsTyped, ImagesAssumption
  <2>2. \A p, q \in Products : <<p, q>> \in DateOrder(c) <=>
           \/ Row(c, p).date < Row(c, q).date
           \/ Row(c, p).date = Row(c, q).date /\ p < q
    BY DEF DateOrder
  <2>3. \A p \in Products : <<p, p>> \notin DateOrder(c)
    BY <2>1, <2>2
  <2>4. \A p, q, r \in Products :
           <<p, q>> \in DateOrder(c) /\ <<q, r>> \in DateOrder(c)
              => <<p, r>> \in DateOrder(c)
    BY <2>1, <2>2
  <2>5. \A p, q \in Products :
           p = q \/ <<p, q>> \in DateOrder(c) \/ <<q, p>> \in DateOrder(c)
    <3>1. ASSUME NEW p \in Products, NEW q \in Products,
                 <<p, q>> \notin DateOrder(c), <<q, p>> \notin DateOrder(c)
          PROVE  p = q
      <4>1. /\ p \in Nat /\ q \in Nat
            /\ Row(c, p).date \in Nat /\ Row(c, q).date \in Nat
        BY <2>1
      <4>2. /\ ~(Row(c, p).date < Row(c, q).date) /\ ~(Row(c, q).date < Row(c, p).date)
            /\ Row(c, p).date = Row(c, q).date => ~(p < q) /\ ~(q < p)
        BY <2>2, <3>1
      <4> QED BY <4>1, <4>2
    <3> QED BY <3>1
  <2> HIDE DEF rows
  <2> QED BY <1>1, <2>3, <2>4, <2>5 DEF Orders
<1> HIDE DEF rows
<1>4. LET s == SortedBy(rows, DateOrder(c))
      IN  s \in Seq(rows) /\ Len(s) = Cardinality(rows) /\ Range(s) = rows
  BY <1>2, <1>3, SortedProperties
<1>5. Listed(c) = SortedBy(rows, DateOrder(c))
  BY DEF Listed, rows
<1>6. Listed(c) \in Seq(Products)
  BY <1>1, <1>4, <1>5
<1> QED
  BY <1>1, <1>2, <1>4, <1>5, <1>6 DEF rows

(* The next batch of a job is its next rows, and only a job that has had   *)
(* them all has no next batch.                                             *)
LEMMA NextBatchRows ==
    ASSUME ImagesInv, NEW c \in Configs, job[c].step # "none",
           job[c].offset \in 0 .. Len(Listed(c))
    PROVE  /\ NextBatch(c) \in Seq(Products)
           /\ job[c].offset + Len(NextBatch(c)) \in 0 .. Len(Listed(c))
           /\ SubSeq(Listed(c), 1, job[c].offset) \o NextBatch(c)
                 = SubSeq(Listed(c), 1, job[c].offset + Len(NextBatch(c)))
           /\ NextBatch(c) = <<>> => job[c].offset = Len(Listed(c))
<1> DEFINE s == Listed(c)
           k == job[c].offset
           last == IF k = 0 THEN (IF Eager = 0 THEN 1 ELSE Eager) ELSE Len(s)
           max == IF last > k THEN last - k ELSE 1
           end == IF last < Len(s) THEN last ELSE Len(s)
           wide == IF k + max < Len(s) THEN k + max ELSE Len(s)
<1>1. s \in Seq(Products) /\ Len(s) \in Nat
  BY ListedRows
<1>2. Eager \in Nat
  BY ImagesAssumption
<1>3. NextBatch(c) = SubSeq(s, k + 1, end)
  BY DEF NextBatch
<1>4. PageOf(s, k, max) = SubSeq(s, k + 1, wide)
  BY DEF PageOf
<1> HIDE DEF s, k
<1>5. k \in Nat /\ k <= Len(s) /\ k \in 0 .. Len(s)
  BY <1>1 DEF s, k
<1>6. last \in Nat /\ (k = 0 => last > k) /\ (k # 0 => last = Len(s))
  BY <1>1, <1>2, <1>5
<1> HIDE DEF last
<1>7. max \in Nat \ {0} /\ max \in Nat
  BY <1>5, <1>6
<1>8. wide = end
  BY <1>1, <1>5, <1>6
<1> HIDE DEF max, end, wide
<1>9. LET q == PageOf(s, k, max)
      IN  /\ q \in Seq(Products)
          /\ k + Len(q) \in k .. Len(s)
          /\ SubSeq(s, 1, k) \o q = SubSeq(s, 1, k + Len(q))
          /\ k < Len(s) => q # <<>>
  BY <1>1, <1>5, <1>7, PageFollows
<1>10. NextBatch(c) = PageOf(s, k, max)
  BY <1>3, <1>4, <1>8
<1>11. /\ NextBatch(c) \in Seq(Products)
       /\ k + Len(NextBatch(c)) \in k .. Len(s)
       /\ SubSeq(s, 1, k) \o NextBatch(c) = SubSeq(s, 1, k + Len(NextBatch(c)))
       /\ k < Len(s) => NextBatch(c) # <<>>
  BY <1>9, <1>10
<1>12. Len(NextBatch(c)) \in Nat
  BY <1>11
<1>13. k + Len(NextBatch(c)) \in 0 .. Len(s)
  BY <1>1, <1>5, <1>11, <1>12
<1>14. NextBatch(c) = <<>> => k = Len(s)
  BY <1>1, <1>5, <1>11
<1> QED
  BY <1>11, <1>13, <1>14 DEF s, k

(* Changed fields of a job of the right types leave a job. *)
LEMMA JobChanged ==
    ASSUME NEW j \in Job, NEW new \in Job, NEW fields,
           \A x \in DOMAIN fields \cap DOMAIN j : fields[x] = new[x]
    PROVE  With(j, fields) \in Job
<1> DEFINE w == With(j, fields)
<1>1. DOMAIN j = { "step", "snap", "token", "offset", "batch", "links", "need", "got",
                   "to_do", "total", "synced", "failed" }
  BY DEF Job
<1>2. /\ w = [x \in DOMAIN j |-> w[x]]
      /\ \A x \in DOMAIN j : w[x] \in {j[x], new[x]}
  BY DEF With
<1> HIDE DEF w
<1>3. w = [ step |-> w.step, snap |-> w.snap, token |-> w.token, offset |-> w.offset,
            batch |-> w.batch, links |-> w.links, need |-> w.need, got |-> w.got,
            to_do |-> w.to_do, total |-> w.total, synced |-> w.synced,
            failed |-> w.failed ]
  BY <1>1, <1>2
<1>4. /\ w.step \in {j.step, new.step} /\ w.snap \in {j.snap, new.snap}
      /\ w.token \in {j.token, new.token} /\ w.offset \in {j.offset, new.offset}
      /\ w.batch \in {j.batch, new.batch} /\ w.links \in {j.links, new.links}
      /\ w.need \in {j.need, new.need} /\ w.got \in {j.got, new.got}
      /\ w.to_do \in {j.to_do, new.to_do} /\ w.total \in {j.total, new.total}
      /\ w.synced \in {j.synced, new.synced} /\ w.failed \in {j.failed, new.failed}
  BY <1>1, <1>2
<1>5. /\ w.step \in { "none", "start", "list", "link", "linkRows", "need", "fetch",
                      "store", "remove", "complete" }
      /\ w.snap \in Snapshots \cup {None} /\ w.token \in Nat /\ w.offset \in Nat
      /\ w.batch \in SUBSET Products /\ w.links \in [Products -> Image]
      /\ w.need \in SUBSET Products
  BY <1>4 DEF Job
<1>6. /\ w.got \in [Products -> Image]
      /\ w.to_do \in SUBSET {"docs", "rows"}
      /\ w.total \in Nat /\ w.synced \in Nat /\ w.failed \in Nat
  BY <1>4 DEF Job
<1>7. w \in Job
  BY <1>3, <1>5, <1>6 DEF Job
<1> QED
  BY <1>7 DEF w

LEMMA NextBatchType ==
    ASSUME ImagesInv, NEW c \in Configs, job[c].step # "none", job[c].offset \in Nat
    PROVE  NextBatch(c) \in Seq(Products)
<1> DEFINE s == Listed(c)
           k == job[c].offset
           last == IF k = 0 THEN (IF Eager = 0 THEN 1 ELSE Eager) ELSE Len(s)
           end == IF last < Len(s) THEN last ELSE Len(s)
<1>1. s \in Seq(Products) /\ Len(s) \in Nat
  BY ListedRows
<1>2. NextBatch(c) = SubSeq(s, k + 1, end)
  BY DEF NextBatch
<1>3. Eager \in Nat
  BY ImagesAssumption
<1> HIDE DEF s, k
<1>4. k \in Nat
  BY DEF k
<1>5. k + 1 \in Nat \ {0} /\ end \in Nat /\ end <= Len(s)
  BY <1>1, <1>3, <1>4
<1> HIDE DEF end
<1>6. SubSeq(s, k + 1, end) \in Seq(Products)
  <2>1. \A i \in k + 1 .. end : s[i] \in Products
    BY <1>1, <1>5
  <2> QED
    BY <1>5, <2>1, SubSeqProperties
<1> QED
  BY <1>2, <1>6

(* A snapshot is taken of records that changed since the one before, so    *)
(* their number is bounded by that of the changes.                         *)
Numbered ==
    \A c \in Configs : /\ Active(c) <= changes + 1
                       /\ ~UpToDate(c) => Active(c) <= changes

LEMMA SnapshotsTaken ==
    ASSUME [Next]_vars
    PROVE  \/ UNCHANGED <<odoo, changes, taken>>
           \/ \E p \in Products, has \in BOOLEAN : OdooImage(p, has)
           \/ \E c \in Configs : ConfigPublished(c)
<1>1. ASSUME NEW c \in Configs, JobStep(c) PROVE UNCHANGED <<odoo, changes, taken>>
  <2>1. CASE JobFetch(c)
    BY <2>1 DEF JobFetch, odooVars, passVars
  <2>2. ASSUME JobOnly PROVE UNCHANGED <<odoo, changes, taken>>
    BY <2>2 DEF JobOnly, odooVars, passVars
  <2>3. CASE JobBegins(c)
    BY <2>3 DEF JobBegins, odooVars, passVars
  <2> QED
    BY <1>1, <2>1, <2>2, <2>3
    DEF JobStep, JobStart, JobList, JobLink, JobLinkRows, JobNeed, JobComplete,
        JobStore, JobRemove
<1>2. ASSUME NEW c \in Configs, JobThrows(c) \/ MarkFailed(c) \/ ConfigLocked(c)
      PROVE  UNCHANGED <<odoo, changes, taken>>
  BY <1>2 DEF JobThrows, MarkFailed, ConfigLocked, odooVars, passVars
<1>3. ASSUME NEW c \in Configs, ConfigUnchanged(c)
      PROVE  UNCHANGED <<odoo, changes, taken>>
  BY <1>3 DEF ConfigUnchanged, odooVars
<1>4. ASSUME NEW s \in SUBSET (0..token), PassBegins(s)
      PROVE  UNCHANGED <<odoo, changes, taken>>
  BY <1>4 DEF PassBegins, odooVars
<1>5. ASSUME PassEnds \/ PassThrows \/ SessionRevoked \/ Restart \/ UNCHANGED vars
      PROVE  UNCHANGED <<odoo, changes, taken>>
  BY <1>5 DEF PassEnds, PassThrows, SessionRevoked, Restart, vars, odooVars, passVars
<1> QED
  BY <1>1, <1>2, <1>3, <1>4, <1>5 DEF Next, PassStep, PassFails, PassRefused

LEMMA NextNumbered == ImagesInv /\ Numbered /\ [Next]_vars => Numbered'
<1> SUFFICES ASSUME ImagesInv, Numbered, [Next]_vars PROVE Numbered'
  OBVIOUS
<1>0. /\ \A c \in Configs : Len(taken[c]) \in Nat /\ taken[c] \in Seq([Products -> Record])
      /\ changes \in Nat
  BY ImagesAssumption DEF ImagesInv, Records, Dates
<1>1. CASE UNCHANGED <<odoo, changes, taken>>
  BY <1>1 DEF Numbered, Active, UpToDate
<1>2. ASSUME NEW p \in Products, NEW has \in BOOLEAN, OdooImage(p, has) PROVE Numbered'
  <2>1. changes' = changes + 1 /\ taken' = taken
    BY <1>2 DEF OdooImage, passVars
  <2> QED BY <1>0, <2>1 DEF Numbered, Active
<1>3. ASSUME NEW c \in Configs, ConfigPublished(c) PROVE Numbered'
  <2>1. /\ taken' = [taken EXCEPT ![c] = Append(@, odoo)] /\ ~UpToDate(c)
        /\ odoo' = odoo /\ changes' = changes
    BY <1>3 DEF ConfigPublished, odooVars
  <2>2. \A d \in Configs : taken'[d] = IF d = c THEN Append(taken[c], odoo) ELSE taken[d]
    BY <2>1 DEF ImagesInv, Records
  <2>3. ASSUME NEW d \in Configs, d # c
        PROVE  Active(d)' <= changes' + 1 /\ (~UpToDate(d)' => Active(d)' <= changes')
    BY <2>1, <2>2, <2>3 DEF Numbered, Active, UpToDate
  <2>4. Active(c)' <= changes' + 1 /\ UpToDate(c)'
    <3>1. odoo \in [Products -> Record] /\ Active(c) <= changes
      BY <2>1 DEF ImagesInv, Records, Numbered
    <3>2. /\ Append(taken[c], odoo) # <<>> /\ Len(Append(taken[c], odoo)) = Len(taken[c]) + 1
          /\ Last(Append(taken[c], odoo)) = odoo
      BY <1>0, <3>1 DEF Last
    <3>3. taken'[c] = Append(taken[c], odoo)
      BY <2>2
    <3> QED BY <1>0, <2>1, <3>1, <3>2, <3>3 DEF Active, UpToDate
  <2> QED BY <2>3, <2>4 DEF Numbered
<1> QED
  BY <1>1, <1>2, <1>3, SnapshotsTaken

JobTypes == job \in [Configs -> Job]

LEMMA NoJobTyped == NoJob \in Job
  BY NoImagesFit DEF NoJob, Job

(* What was fetched is an image or none for each product. *)
LEMMA FetchedTyped ==
    ASSUME ImagesInv, NEW need \in SUBSET Products,
           NEW got \in [need -> UNION {Answers(p) : p \in need}],
           \A p \in need : got[p] \in Answers(p)
    PROVE  With(NoImages, got) \in [Products -> Image]
<1>1. /\ DOMAIN With(NoImages, got) = Products
      /\ \A p \in Products :
            With(NoImages, got)[p] = IF p \in need THEN got[p] ELSE {}
  BY Changed DEF NoImages
<1>2. \A p \in Products : odoo[p].date \in Dates
  BY DEF ImagesInv, Records, Record
<1>3. \A p \in Products : With(NoImages, got)[p] \in Image
  BY <1>1, <1>2 DEF Answers, Image
<1> QED
  BY <1>1, <1>3 DEF With

LEMMA SomeProducts ==
    ASSUME NEW S, S \subseteq Products
    PROVE  IsFiniteSet(S) /\ Cardinality(S) \in Nat
  BY ImagesAssumption, FS_Subset, FS_CardinalityType

(* A step of a job leaves it a job: its counters are numbers, the products *)
(* in hand are products, and every image is one or none.                   *)
LEMMA JobStepTyped ==
    ASSUME ImagesInv, Numbered, JobTypes, NEW c \in Configs, JobStep(c)
    PROVE  JobTypes'
<1> DEFINE j == job[c]
<1>0. /\ j \in Job /\ j.offset \in Nat /\ j.synced \in Nat /\ j.failed \in Nat
      /\ j.need \in SUBSET Products /\ j.batch \in SUBSET Products
      /\ j.to_do \in SUBSET {"docs", "rows"}
      /\ j.got \in [Products -> Image] /\ j.links \in [Products -> Image]
      /\ DOMAIN j = { "step", "snap", "token", "offset", "batch", "links", "need", "got",
                      "to_do", "total", "synced", "failed" }
  BY DEF JobTypes, Job
<1>1. ASSUME NEW new \in Job, NEW fields, Step(c, fields),
             \A x \in DOMAIN fields : fields[x] = new[x]
      PROVE  JobTypes'
  <2>1. With(j, fields) \in Job
    BY <1>0, <1>1, JobChanged
  <2> QED BY <1>1, <2>1 DEF JobTypes, Step
<1> HIDE DEF j
<1>2. CASE JobBegins(c)
  <2>1. PICK item : item = Head(queue[c])
    OBVIOUS
  <2>2. /\ queue[c] \in Seq([snap : Nat, token : Nat]) /\ queue[c] # <<>>
        /\ \A i \in DOMAIN queue[c] : queue[c][i].snap \in 1..Active(c)
    BY <1>2 DEF ImagesInv, Queues, JobBegins
  <2>3. /\ 1 \in DOMAIN queue[c] /\ 1 \in 1..Len(queue[c]) /\ item = queue[c][1]
        /\ item \in [snap : Nat, token : Nat]
    <3>1. 1 \in DOMAIN queue[c] /\ 1 \in 1..Len(queue[c]) /\ item = queue[c][1]
      BY <2>1, <2>2
    <3>2. queue[c][1] \in [snap : Nat, token : Nat]
      BY <2>2, <3>1, ElementOfSeq, Zenon
    <3> QED BY <3>1, <3>2
  <2>4. item.snap \in Snapshots /\ item.token \in Nat
    <3>1. item.snap \in 1..Active(c) /\ item.token \in Nat
      BY <2>2, <2>3
    <3>2. Active(c) <= changes + 1 /\ Active(c) \in Nat
      BY DEF Numbered, ImagesInv, Records, Active
    <3>3. changes \in Nat /\ changes <= MaxChanges /\ MaxChanges \in Nat
      BY ImagesAssumption DEF ImagesInv, Records, Dates
    <3> QED BY <3>1, <3>2, <3>3 DEF Snapshots
  <2>5. [NoJob EXCEPT !.step = "start", !.snap = item.snap, !.token = item.token] \in Job
    BY <2>4, NoJobTyped DEF Job
  <2> QED BY <1>2, <2>1, <2>5 DEF JobBegins, JobTypes
<1>3. CASE JobStart(c)
  <2>1. PICK n : n = Cardinality(WithUrl(c, job[c].snap))
    OBVIOUS
  <2>2. n \in Nat
    <3>1. WithUrl(c, job[c].snap) \subseteq Products
      BY DEF WithUrl
    <3> QED BY <2>1, <3>1, SomeProducts
  <2>3. Step(c, [step |-> "list", total |-> n])
    BY <1>3, <2>1 DEF JobStart
  <2>4. PICK e \in Job : e = [j EXCEPT !.step = "list", !.total = n]
    BY <1>0, <2>2 DEF Job
  <2>5. e.step = "list" /\ e.total = n
    BY <1>0, <2>4
  <2> QED BY <1>0, <1>1, <2>3, <2>5
<1>4. CASE JobList(c)
  <2>1. PICK b : b = NextBatch(c)
    OBVIOUS
  <2>2. b \in Seq(Products) /\ Len(b) \in Nat /\ Range(b) \in SUBSET Products
    <3>1. b \in Seq(Products)
      BY <1>0, <1>4, <2>1, NextBatchType DEF j, JobList
    <3>2. Len(b) \in Nat /\ Range(b) \in SUBSET Products
      BY <3>1 DEF Range
    <3> QED BY <3>1, <3>2
  <2>3. CASE b = <<>>
    <3>1. Step(c, [step |-> "complete"])
      BY <1>4, <2>1, <2>3 DEF JobList
    <3>2. PICK e \in Job : e = [j EXCEPT !.step = "complete"]
      BY <1>0 DEF Job
    <3>3. e.step = "complete"
      BY <1>0, <3>2
    <3> QED BY <1>0, <1>1, <3>1, <3>3
  <2>4. CASE b # <<>>
    <3>0. PICK n \in Nat, r \in SUBSET Products :
             n = job[c].offset + Len(b) /\ r = Range(b)
      BY <1>0, <2>2 DEF j
    <3>1. Step(c, [step |-> "link", batch |-> r, offset |-> n])
      BY <1>4, <2>1, <2>4, <3>0 DEF JobList
    <3>2. PICK e \in Job : e = [j EXCEPT !.step = "link", !.batch = r, !.offset = n]
      BY <1>0 DEF Job
    <3>3. e.step = "link" /\ e.batch = r /\ e.offset = n
      BY <1>0, <3>2
    <3> QED BY <1>0, <1>1, <3>1, <3>3
  <2> QED BY <2>3, <2>4
<1>5. CASE JobLink(c)
  <2>1. PICK links : links = [p \in Products |-> IF p \in job[c].batch /\ Linkable(c, p)
                                                 THEN docs[p].image ELSE {}]
    OBVIOUS
  <2>2. links \in [Products -> Image]
    BY <2>1 DEF ImagesInv, Documents, Doc, Image
  <2>3. Step(c, [step |-> "linkRows", links |-> links])
    BY <1>5, <2>1 DEF JobLink
  <2>4. PICK e \in Job : e = [j EXCEPT !.step = "linkRows", !.links = links]
    BY <1>0, <2>2 DEF Job
  <2>5. e.step = "linkRows" /\ e.links = links
    BY <1>0, <2>4
  <2> QED BY <1>0, <1>1, <2>3, <2>5
<1>6. CASE JobLinkRows(c)
  <2>1. Cardinality(Given(job[c].links)) \in Nat
    BY SomeProducts DEF Given
  <2>2. PICK n \in Nat : Step(c, [step |-> "need", links |-> NoImages, synced |-> n])
    <3>1. job[c].synced + Cardinality(Given(job[c].links)) \in Nat
      BY <1>0, <2>1 DEF j
    <3> QED BY <1>6, <3>1 DEF JobLinkRows
  <2>3. PICK e \in Job : e = [j EXCEPT !.step = "need", !.links = NoImages, !.synced = n]
    BY <1>0, NoImagesFit DEF Job
  <2>4. e.step = "need" /\ e.links = NoImages /\ e.synced = n
    BY <1>0, <2>3
  <2> QED BY <1>0, <1>1, <2>2, <2>4
<1>7. CASE JobNeed(c)
  <2>1. PICK need : need = {p \in job[c].batch : Needed(c, p)}
    OBVIOUS
  <2>2. need \in SUBSET Products
    BY <1>0, <2>1 DEF j
  <2>3. CASE Step(c, [step |-> "list", batch |-> {}])
    <3>1. PICK e \in Job : e = [j EXCEPT !.step = "list", !.batch = {}]
      BY <1>0 DEF Job
    <3>2. e.step = "list" /\ e.batch = {}
      BY <1>0, <3>1
    <3>3. PICK f : f = [step |-> "list", batch |-> {}]
      OBVIOUS
    <3>4. \A x \in DOMAIN f : f[x] = e[x]
      BY <3>2, <3>3
    <3>5. Step(c, f)
      BY <2>3, <3>3
    <3> QED BY <1>1, <3>4, <3>5
  <2>4. CASE Step(c, [step |-> "fetch", need |-> need])
    <3>1. PICK e \in Job : e = [j EXCEPT !.step = "fetch", !.need = need]
      BY <1>0, <2>2 DEF Job
    <3>2. e.step = "fetch" /\ e.need = need
      BY <1>0, <3>1
    <3> QED BY <1>0, <1>1, <2>4, <3>2
  <2> QED BY <1>7, <2>1, <2>3, <2>4 DEF JobNeed
<1>8. CASE JobFetch(c)
  <2>1. PICK failing \in SUBSET job[c].need,
             got \in [job[c].need -> UNION {Answers(p) : p \in job[c].need}] :
           /\ \A p \in job[c].need : got[p] \in Answers(p)
           /\ Step(c, [ step |-> "store", to_do |-> {"docs", "rows"},
                        need |-> job[c].need \ failing, got |-> With(NoImages, got),
                        failed |-> job[c].failed + Cardinality(failing) ])
    BY <1>8 DEF JobFetch
  <2>2. PICK g \in [Products -> Image] : g = With(NoImages, got)
    <3>1. job[c].need \in SUBSET Products
      BY <1>0 DEF j
    <3> QED BY <2>1, <3>1, FetchedTyped
  <2>3. PICK n \in Nat : n = job[c].failed + Cardinality(failing)
    <3>1. Cardinality(failing) \in Nat
      BY <1>0, SomeProducts DEF j
    <3> QED BY <1>0, <3>1 DEF j
  <2>4. PICK r \in SUBSET Products : r = job[c].need \ failing
    BY <1>0 DEF j
  <2>5. Step(c, [ step |-> "store", to_do |-> {"docs", "rows"}, need |-> r, got |-> g,
                  failed |-> n ])
    BY <2>1, <2>2, <2>3, <2>4
  <2>6. PICK e \in Job : e = [j EXCEPT !.step = "store", !.to_do = {"docs", "rows"},
                                       !.need = r, !.got = g, !.failed = n]
    BY <1>0 DEF Job
  <2>7. /\ e.step = "store" /\ e.to_do = {"docs", "rows"} /\ e.need = r
         /\ e.got = g /\ e.failed = n
    BY <1>0, <2>6
  <2>8. PICK f : f = [ step |-> "store", to_do |-> {"docs", "rows"}, need |-> r,
                     got |-> g, failed |-> n ]
    OBVIOUS
  <2>9. \A x \in DOMAIN f : f[x] = e[x]
    <3>1. DOMAIN f = {"step", "to_do", "need", "got", "failed"}
      BY <2>8
    <3>2. f["step"] = e["step"] /\ f["to_do"] = e["to_do"] /\ f["need"] = e["need"]
      BY <2>7, <2>8
    <3>3. f["got"] = e["got"] /\ f["failed"] = e["failed"]
      BY <2>7, <2>8
    <3> QED BY <3>1, <3>2, <3>3
  <2>10. Step(c, f)
    BY <2>5, <2>8
  <2> QED BY <1>1, <2>9, <2>10
<1>9. ASSUME NEW what \in {"docs", "rows"}, JobStore(c, what) PROVE JobTypes'
  <2>1. CASE Step(c, [to_do |-> job[c].to_do \ {what}])
    <3>1. PICK left \in SUBSET {"docs", "rows"} : left = job[c].to_do \ {what}
      BY <1>0 DEF j
    <3>2. PICK e \in Job : e = [j EXCEPT !.to_do = left]
      BY <1>0 DEF Job
    <3>3. e.to_do = left
      BY <1>0, <3>2
    <3>4. Step(c, [to_do |-> left])
      BY <2>1, <3>1
    <3> QED BY <1>0, <1>1, <3>3, <3>4
  <2>2. ASSUME NEW null, null = job[c].need \ Images(c), NEW n,
               n = job[c].synced + Cardinality(Images(c))
                      + Cardinality({p \in null : docs'[p].stored}),
               Step(c, [ step |-> "remove", to_do |-> {"docs", "rows"},
                         need |-> null, synced |-> n ])
        PROVE  JobTypes'
    <3>1. null \in SUBSET Products /\ Images(c) \subseteq Products
      BY <1>0, <2>2 DEF j, Images, Given
    <3>2. n \in Nat
      <4>1. PICK a \in Nat : a = Cardinality(Images(c))
        BY <3>1, SomeProducts
      <4>2. PICK b \in Nat : b = Cardinality({p \in null : docs'[p].stored})
        BY <3>1, SomeProducts
      <4> QED BY <1>0, <2>2, <4>1, <4>2 DEF j
    <3>3. PICK e \in Job : e = [j EXCEPT !.step = "remove", !.to_do = {"docs", "rows"},
                                         !.need = null, !.synced = n]
      BY <1>0, <3>1, <3>2 DEF Job
    <3>4. /\ e.step = "remove" /\ e.to_do = {"docs", "rows"}
           /\ e.need = null /\ e.synced = n
      BY <1>0, <3>3
    <3>5. PICK f : f = [ step |-> "remove", to_do |-> {"docs", "rows"},
                       need |-> null, synced |-> n ]
      OBVIOUS
    <3>6. \A x \in DOMAIN f : f[x] = e[x]
      BY <3>4, <3>5
    <3>7. Step(c, f)
      BY <2>2, <3>5
    <3> QED BY <1>1, <3>6, <3>7
  <2> QED BY <1>9, <2>1, <2>2 DEF JobStore
<1>10. ASSUME NEW what \in {"docs", "rows"}, JobRemove(c, what) PROVE JobTypes'
  <2>1. CASE Step(c, [to_do |-> job[c].to_do \ {what}])
    <3>1. PICK left \in SUBSET {"docs", "rows"} : left = job[c].to_do \ {what}
      BY <1>0 DEF j
    <3>2. PICK e \in Job : e = [j EXCEPT !.to_do = left]
      BY <1>0 DEF Job
    <3>3. e.to_do = left
      BY <1>0, <3>2
    <3>4. Step(c, [to_do |-> left])
      BY <2>1, <3>1
    <3> QED BY <1>0, <1>1, <3>3, <3>4
  <2>2. CASE Step(c, [ step |-> "list", to_do |-> {}, batch |-> {}, need |-> {},
                       got |-> NoImages ])
    <3>1. PICK e \in Job : e = [j EXCEPT !.step = "list", !.to_do = {}, !.batch = {},
                                         !.need = {}, !.got = NoImages]
      BY <1>0, NoImagesFit DEF Job
    <3>2. /\ e.step = "list" /\ e.to_do = {} /\ e.batch = {}
           /\ e.need = {} /\ e.got = NoImages
      BY <1>0, <3>1
    <3>3. PICK f : f = [ step |-> "list", to_do |-> {}, batch |-> {}, need |-> {},
                       got |-> NoImages ]
      OBVIOUS
    <3>4. \A x \in DOMAIN f : f[x] = e[x]
      BY <3>2, <3>3
    <3>5. Step(c, f)
      BY <2>2, <3>3
    <3> QED BY <1>1, <3>4, <3>5
  <2> QED BY <1>10, <2>1, <2>2 DEF JobRemove
<1>11. CASE JobComplete(c)
  BY <1>11, NoJobTyped DEF JobComplete, JobTypes
<1> QED
  BY <1>2, <1>3, <1>4, <1>5, <1>6, <1>7, <1>8, <1>9, <1>10, <1>11 DEF JobStep

(* What a job step leaves of the pass, and what it reports. *)
PassTypes ==
    /\ faults \in 0..MaxFaults
    /\ timer \in {"armed", "ticking", "off"}
    /\ at \in 1..Len(Order) + 1
    /\ token \in Nat /\ session \in {{}} \cup {{t} : t \in 0..token}
    /\ late \in [Configs -> SUBSET Snapshots]

ReportTypes == imaging \in [Configs -> Imaging]

LEMMA OneFault ==
    ASSUME PassTypes, UNCHANGED faults \/ Fault
    PROVE  faults' \in 0..MaxFaults
  BY ImagesAssumption DEF PassTypes, Fault

LEMMA SnapshotsOfJobs ==
    ASSUME ImagesInv, Numbered, NEW c \in Configs, NEW s \in 1..Active(c)
    PROVE  s \in Snapshots
<1>1. Active(c) <= changes + 1 /\ Active(c) \in Nat
  BY DEF Numbered, ImagesInv, Records, Active
<1>2. changes \in Nat /\ changes <= MaxChanges /\ MaxChanges \in Nat
  BY ImagesAssumption DEF ImagesInv, Records, Dates
<1> QED BY <1>1, <1>2 DEF Snapshots

LEMMA NextPassTyped ==
    ASSUME ImagesInv, Numbered, PassTypes, [Next]_vars
    PROVE  PassTypes'
<1>0. Len(Order) \in Nat
  BY ImagesAssumption
<1>1. ASSUME NEW p \in Products, NEW has \in BOOLEAN, OdooImage(p, has) PROVE PassTypes'
  BY <1>1 DEF OdooImage, PassTypes, passVars, jobVars
<1>2. CASE SessionRevoked
  <2>1. faults' \in 0..MaxFaults
    BY <1>2, OneFault DEF SessionRevoked
  <2>2. /\ timer' = timer /\ at' = at /\ late' = late /\ session' = session
        /\ token' = token + 1
    BY <1>2 DEF SessionRevoked, passVars, jobVars
  <2>3. session' \in {{}} \cup {{t} : t \in 0..token'}
    BY <2>2 DEF PassTypes
  <2> QED BY <2>1, <2>2, <2>3 DEF PassTypes
<1>3. ASSUME NEW s \in SUBSET (0..token), PassBegins(s) PROVE PassTypes'
  <2>1. /\ timer' = "ticking" /\ at' = 1 /\ session' = s /\ (s = {token} \/ s = session)
        /\ UNCHANGED <<faults, token, late>>
    BY <1>3 DEF PassBegins, odooVars, jobVars
  <2>2. s \in {{}} \cup {{t} : t \in 0..token}
    BY <2>1 DEF PassTypes
  <2>3. at' \in 1..Len(Order) + 1
    BY <1>0, <2>1
  <2>4. session' \in {{}} \cup {{t} : t \in 0..token'}
    BY <2>1, <2>2
  <2> QED BY <2>1, <2>3, <2>4 DEF PassTypes
<1>4. CASE PassEnds
  BY <1>4 DEF PassEnds, PassTypes, odooVars, jobVars
<1>5. CASE PassThrows /\ (UNCHANGED faults \/ Fault)
  <2>1. faults' \in 0..MaxFaults
    BY <1>5, OneFault
  <2> QED BY <1>5, <2>1 DEF PassThrows, AfterFailure, PassTypes, odooVars, jobVars
<1>6. ASSUME NEW c \in Configs, ConfigPublished(c) \/ ConfigUnchanged(c) \/ ConfigLocked(c)
      PROVE  PassTypes'
  <2>1. at <= Len(Order) /\ at' = at + 1 /\ (UNCHANGED faults \/ Fault)
        /\ UNCHANGED <<timer, token, session, late>>
    BY <1>6 DEF ConfigPublished, ConfigUnchanged, ConfigLocked, AtConfig, odooVars, jobVars
  <2>2. faults' \in 0..MaxFaults
    BY <2>1, OneFault
  <2> QED BY <1>0, <2>1, <2>2 DEF PassTypes
<1>7. ASSUME NEW c \in Configs, JobStep(c) PROVE PassTypes'
  <2>1. (UNCHANGED faults \/ Fault) /\ UNCHANGED <<timer, at, token, session, late>>
    <3>1. CASE JobFetch(c)
      BY <3>1 DEF JobFetch, odooVars, passVars
    <3>2. ASSUME JobOnly PROVE UNCHANGED <<faults, timer, at, token, session, late>>
      BY <3>2 DEF JobOnly, odooVars, passVars
    <3>3. CASE JobBegins(c)
      BY <3>3 DEF JobBegins, odooVars, passVars
    <3> QED
      BY <1>7, <3>1, <3>2, <3>3
      DEF JobStep, JobStart, JobList, JobLink, JobLinkRows, JobNeed, JobComplete,
          JobStore, JobRemove
  <2>2. faults' \in 0..MaxFaults
    BY <2>1, OneFault
  <2> QED BY <2>1, <2>2 DEF PassTypes
<1>8. ASSUME NEW c \in Configs, JobThrows(c) PROVE PassTypes'
  <2>1. job[c].snap \in Snapshots
    BY <1>8, RowsTyped, SnapshotsOfJobs DEF JobThrows
  <2>2. faults' \in 0..MaxFaults
    BY <1>8, OneFault DEF JobThrows
  <2>3. late' \in [Configs -> SUBSET Snapshots]
    BY <1>8, <2>1 DEF JobThrows, PassTypes
  <2> QED BY <1>8, <2>2, <2>3 DEF JobThrows, PassTypes, odooVars, passVars
<1>9. ASSUME NEW c \in Configs, MarkFailed(c) PROVE PassTypes'
  <2>1. late' \in [Configs -> SUBSET Snapshots]
    BY <1>9 DEF MarkFailed, PassTypes
  <2> QED BY <1>9, <2>1 DEF MarkFailed, PassTypes, odooVars, passVars
<1>10. CASE Restart
  <2>1. faults' \in 0..MaxFaults
    BY <1>10, OneFault DEF Restart
  <2> QED BY <1>0, <1>10, <2>1 DEF Restart, PassTypes, odooVars
<1>11. CASE UNCHANGED vars
  BY <1>11 DEF vars, odooVars, passVars, jobVars, PassTypes
<1> QED
  BY <1>1, <1>2, <1>3, <1>4, <1>5, <1>6, <1>7, <1>8, <1>9, <1>10, <1>11
     DEF Next, PassStep, PassFails, PassRefused

(* Every report of a job is one: its counters are the job's. *)
LEMMA NextReportTyped ==
    ASSUME ImagesInv, Numbered, JobTypes, ReportTypes, [Next]_vars
    PROVE  ReportTypes'
<1>1. ASSUME NEW c \in Configs, NEW new \in Imaging, imaging' = Report(c, new)
      PROVE  ReportTypes'
  BY <1>1 DEF Report, ReportTypes
<1>2. ASSUME UNCHANGED imaging PROVE ReportTypes'
  BY <1>2 DEF ReportTypes
<1>3. ASSUME NEW c \in Configs, JobStart(c) PROVE ReportTypes'
  <2>1. PICK n : n = Cardinality(WithUrl(c, job[c].snap))
    OBVIOUS
  <2>2. n \in Nat
    BY <2>1, SomeProducts DEF WithUrl
  <2>3. imaging' = Report(c, [status |-> "running", total |-> n, synced |-> 0, failed |-> 0])
    BY <1>3, <2>1 DEF JobStart
  <2>4. [status |-> "running", total |-> n, synced |-> 0, failed |-> 0] \in Imaging
    BY <2>2 DEF Imaging
  <2> QED BY <1>1, <2>3, <2>4
<1>4. ASSUME NEW c \in Configs, JobComplete(c) PROVE ReportTypes'
  <2>1. PICK status \in {"failed", "complete"} :
           imaging' = Report(c, [ status |-> status, total |-> job[c].total,
                                  synced |-> job[c].synced, failed |-> job[c].failed ])
    BY <1>4 DEF JobComplete
  <2>2. job[c].total \in Nat /\ job[c].synced \in Nat /\ job[c].failed \in Nat
    BY DEF JobTypes, Job
  <2>3. [ status |-> status, total |-> job[c].total,
          synced |-> job[c].synced, failed |-> job[c].failed ] \in Imaging
    BY <2>2 DEF Imaging
  <2> QED BY <1>1, <2>1, <2>3
<1>5. ASSUME NEW c \in Configs, JobStep(c), ~JobStart(c), ~JobComplete(c)
      PROVE  UNCHANGED imaging
  BY <1>5 DEF JobStep, JobBegins, JobList, JobLink, JobLinkRows, JobNeed, JobFetch,
              JobStore, JobRemove
<1>6. ASSUME NEW c \in Configs, MarkFailed(c) PROVE ReportTypes'
  <2>1. CASE UNCHANGED imaging
    BY <1>2, <2>1
  <2>2. CASE imaging' = [imaging EXCEPT ![c].status = "failed"]
    <3>1. [imaging[c] EXCEPT !.status = "failed"] \in Imaging
      BY DEF ReportTypes, Imaging
    <3> QED BY <2>2, <3>1 DEF ReportTypes
  <2> QED BY <1>6, <2>1, <2>2 DEF MarkFailed
<1>7. ASSUME NEW c \in Configs, ConfigPublished(c) PROVE ReportTypes'
  BY <1>7 DEF ConfigPublished, ReportTypes, Imaging
<1>8. ASSUME NEW c \in Configs, ConfigUnchanged(c) \/ ConfigLocked(c) \/ JobThrows(c)
      PROVE  UNCHANGED imaging
  BY <1>8 DEF ConfigUnchanged, ConfigLocked, JobThrows
<1>9. ASSUME NEW s \in SUBSET (0..token), PassBegins(s)
      PROVE  UNCHANGED imaging
  BY <1>9 DEF PassBegins
<1>10. ASSUME NEW p \in Products, NEW has \in BOOLEAN, OdooImage(p, has)
       PROVE  UNCHANGED imaging
  BY <1>10 DEF OdooImage
<1>11. ASSUME PassEnds \/ PassThrows \/ SessionRevoked \/ Restart \/ UNCHANGED vars
       PROVE  UNCHANGED imaging
  BY <1>11 DEF PassEnds, PassThrows, SessionRevoked, Restart, vars
<1> QED
  BY <1>2, <1>3, <1>4, <1>5, <1>6, <1>7, <1>8, <1>9, <1>10, <1>11
     DEF Next, PassStep, PassFails, PassRefused

LEMMA NextJobTyped ==
    ASSUME ImagesInv, Numbered, JobTypes, [Next]_vars
    PROVE  JobTypes'
<1>1. ASSUME UNCHANGED job PROVE JobTypes'
  BY <1>1 DEF JobTypes
<1>2. ASSUME NEW c \in Configs, JobThrows(c) PROVE JobTypes'
  BY <1>2, NoJobTyped DEF JobThrows, JobTypes
<1>3. CASE Restart
  BY <1>3, NoJobTyped DEF Restart, JobTypes
<1>4. ASSUME NEW c \in Configs,
             ConfigUnchanged(c) \/ ConfigPublished(c) \/ ConfigLocked(c) \/ MarkFailed(c)
      PROVE  UNCHANGED job
  BY <1>4 DEF ConfigUnchanged, ConfigPublished, ConfigLocked, MarkFailed, jobVars
<1>5. ASSUME NEW s \in SUBSET (0..token), PassBegins(s) PROVE UNCHANGED job
  BY <1>5 DEF PassBegins, jobVars
<1>6. ASSUME NEW p \in Products, NEW has \in BOOLEAN, OdooImage(p, has)
      PROVE  UNCHANGED job
  BY <1>6 DEF OdooImage, jobVars
<1>7. ASSUME PassEnds \/ PassThrows \/ SessionRevoked \/ UNCHANGED vars
      PROVE  UNCHANGED job
  BY <1>7 DEF PassEnds, PassThrows, SessionRevoked, vars, jobVars
<1> QED
  BY <1>1, <1>2, <1>3, <1>4, <1>5, <1>6, <1>7, JobStepTyped
     DEF Next, PassStep, PassFails, PassRefused

TypesInv == Numbered /\ JobTypes /\ PassTypes /\ ReportTypes

LEMMA InitTyped == Init => TypesInv
<1> SUFFICES ASSUME Init PROVE TypesInv
  OBVIOUS
<1>0. /\ MaxFaults \in Nat /\ MaxChanges \in Nat /\ Len(Order) \in Nat
  BY ImagesAssumption
<1>1. Numbered
  BY <1>0 DEF Init, Numbered, Active, UpToDate
<1>2. JobTypes
  BY NoJobTyped DEF Init, JobTypes
<1>3. PassTypes
  BY <1>0 DEF Init, PassTypes
<1>4. ReportTypes
  BY DEF Init, ReportTypes, Imaging
<1> QED BY <1>1, <1>2, <1>3, <1>4 DEF TypesInv

LEMMA QueuesTyped ==
    ASSUME ImagesInv, Numbered
    PROVE  queue \in [Configs -> Seq([snap : Snapshots, token : Nat])]
<1>1. queue \in [Configs -> Seq([snap : Nat, token : Nat])]
  BY DEF ImagesInv, Queues
<1>2. ASSUME NEW c \in Configs PROVE queue[c] \in Seq([snap : Snapshots, token : Nat])
  <2>1. queue[c] \in Seq([snap : Nat, token : Nat])
    BY <1>1
  <2>2. ASSUME NEW i \in 1..Len(queue[c]) PROVE queue[c][i] \in [snap : Snapshots, token : Nat]
    <3>1. queue[c][i].snap \in 1..Active(c)
      BY <2>1 DEF ImagesInv, Queues
    <3>2. queue[c][i] \in [snap : Nat, token : Nat]
      BY <2>1, <2>2, ElementOfSeq, Zenon
    <3>3. queue[c][i].snap \in Snapshots
      BY <3>1, SnapshotsOfJobs
    <3> QED BY <3>2, <3>3
  <2>3. Len(queue[c]) \in Nat /\ queue[c] \in [1..Len(queue[c]) -> [snap : Nat, token : Nat]]
    BY <2>1, LenProperties
  <2>4. queue[c] \in [1..Len(queue[c]) -> [snap : Snapshots, token : Nat]]
    BY <2>2, <2>3
  <2>5. PICK n \in Nat : queue[c] \in [1..n -> [snap : Snapshots, token : Nat]]
    BY <2>3, <2>4
  <2>6. PICK S : S = [snap : Snapshots, token : Nat]
    OBVIOUS
  <2>7. queue[c] \in [1..n -> S]
    BY <2>5, <2>6
  <2>8. queue[c] \in Seq(S)
    BY <2>7, SeqDef
  <2> QED BY <2>6, <2>8
<1> QED BY <1>1, <1>2

(* What passes, jobs and restarts keep of the types, and why the snapshots *)
(* are bounded: each follows a change of Odoo's records.                   *)
THEOREM TypesInvariant == Spec => []TypesInv
<1>1. ImagesInv /\ TypesInv /\ [Next]_vars => TypesInv'
  BY NextNumbered, NextJobTyped, NextPassTyped, NextReportTyped DEF TypesInv
<1> QED
  BY <1>1, InitTyped, ImagesInvariant, PTL DEF Spec

(* Every variable keeps its type, through jobs that throw, passes that     *)
(* fail and restarts: in particular a marked failure, a waiting job and a  *)
(* running one are of a snapshot that was taken, and the worker never has  *)
(* two sessions, nor one Odoo never gave (getSession, scheduleImageSync    *)
(* and the counters of syncImagesForProducts).                             *)
THEOREM ImagesTypeCorrect == Spec => []ImagesTypeOK
<1>1. ImagesInv /\ TypesInv => ImagesTypeOK
  <2> SUFFICES ASSUME ImagesInv, TypesInv PROVE ImagesTypeOK
    OBVIOUS
  <2>1. queue \in [Configs -> Seq([snap : Snapshots, token : Nat])]
    BY QueuesTyped DEF TypesInv
  <2> QED
    BY <2>1 DEF ImagesTypeOK, TypesInv, JobTypes, PassTypes, ReportTypes, ImagesInv,
                Records, Documents, Marks, Queues
<1> QED
  BY <1>1, TypesInvariant, ImagesInvariant, PTL

-----------------------------------------------------------------------------
(* What "complete" means.  The products a job has listed and not those it  *)
(* still has in hand: which ones these are depends on the step it is at.   *)

Listing(c) == Range(SubSeq(Listed(c), 1, job[c].offset))

InHand(c) ==
    CASE job[c].step \in {"link", "linkRows", "need"} -> job[c].batch
      [] job[c].step = "fetch" -> job[c].need
      [] job[c].step = "store" -> IF "docs" \in job[c].to_do THEN job[c].need
                                  ELSE job[c].need \ Images(c)
      [] job[c].step = "remove" -> IF "docs" \in job[c].to_do THEN job[c].need ELSE {}
      [] OTHER -> {}

AllStored(c) == \A p \in WithUrl(c, Active(c)) : docs[p].stored

(* A job of the active snapshot to which no request failed has a document  *)
(* for every product that it has listed and does not have in hand.         *)
CoveredBy(c) ==
    job[c].step # "none" /\ job[c].snap = Active(c) =>
        /\ job[c].offset \in 0..Len(Listed(c))
        /\ job[c].failed = 0 =>
              /\ \A p \in Listing(c) \ InHand(c) : docs[p].stored
              /\ job[c].step = "complete" => AllStored(c)

CoverInv == (\A c \in Configs : CoveredBy(c)) /\ CompleteStoredAll

StoredKept == \A p \in Products : docs[p].stored => docs'[p].stored

(* A document once stored is overwritten, never deleted. *)
LEMMA NextStored ==
    ASSUME ImagesInv, [Next]_vars
    PROVE  StoredKept
<1>1. ASSUME UNCHANGED docs PROVE StoredKept
  BY <1>1 DEF StoredKept
<1>2. ASSUME NEW c \in Configs, NEW images, NEW which, docs' = Stored(c, images, which)
      PROVE  StoredKept
  BY <1>2 DEF Stored, StoredKept
<1>3. ASSUME NEW c \in Configs, JobStep(c) PROVE StoredKept
  <2>1. ASSUME NEW what \in {"docs", "rows"}, JobStore(c, what) \/ JobRemove(c, what)
        PROVE  StoredKept
    BY <1>1, <1>2, <2>1 DEF JobStore, JobRemove
  <2> QED
    BY <1>1, <1>3, <2>1
    DEF JobStep, JobBegins, JobStart, JobList, JobLink, JobLinkRows, JobNeed, JobFetch,
        JobComplete
<1>4. ASSUME NEW c \in Configs,
             ConfigUnchanged(c) \/ ConfigPublished(c) \/ ConfigLocked(c)
                \/ MarkFailed(c)
      PROVE  UNCHANGED docs
  BY <1>4 DEF ConfigUnchanged, ConfigPublished, ConfigLocked, MarkFailed
<1>5. ASSUME NEW s \in SUBSET (0..token), PassBegins(s) PROVE UNCHANGED docs
  BY <1>5 DEF PassBegins
<1>6. ASSUME NEW p \in Products, NEW has \in BOOLEAN, OdooImage(p, has)
      PROVE  UNCHANGED docs
  BY <1>6 DEF OdooImage
<1>7. ASSUME PassEnds \/ PassThrows \/ SessionRevoked \/ Restart \/ UNCHANGED vars
      PROVE  UNCHANGED docs
  BY <1>7 DEF PassEnds, PassThrows, SessionRevoked, Restart, vars
<1>8. ASSUME NEW c \in Configs, JobThrows(c) PROVE StoredKept
  <2>1. PICK some : docs' = Stored(c, Writing(c), some)
    BY <1>8 DEF JobThrows
  <2> QED BY <1>2, <2>1
<1> QED
  BY <1>1, <1>3, <1>4, <1>5, <1>6, <1>7, <1>8
     DEF Next, PassStep, PassFails, PassRefused

LEMMA ListedKept ==
    ASSUME NEW c \in Configs, taken'[c] = taken[c], job'[c].snap = job[c].snap
    PROVE  Listed(c)' = Listed(c)
<1>1. DateOrder(c)' = DateOrder(c)
  BY DEF DateOrder, Row
<1>2. WithUrl(c, job[c].snap)' = WithUrl(c, job[c].snap)
  BY DEF WithUrl, Exists, Active
<1> QED BY <1>1, <1>2 DEF Listed

(* A config whose job stands still, whatever other jobs store. *)
LEMMA CoverStays ==
    ASSUME ImagesInv, NEW c \in Configs, CoveredBy(c), StoredKept,
           taken'[c] = taken[c], job'[c] = job[c]
    PROVE  CoveredBy(c)'
<1>1. Listed(c)' = Listed(c)
  BY ListedKept
<1>2. InHand(c)' = InHand(c)
  BY DEF InHand, Images
<1>3. Active(c)' = Active(c) /\ WithUrl(c, Active(c))' = WithUrl(c, Active(c))
  BY DEF Active, WithUrl, Exists
<1>4. WithUrl(c, Active(c)) \subseteq Products
  BY DEF WithUrl
<1>5. Listing(c)' = Listing(c)
  BY <1>1 DEF Listing
<1>6. ASSUME job[c].step # "none", job[c].offset \in 0..Len(Listed(c))
      PROVE  Listing(c) \subseteq Products
  <2>1. Listed(c) \in Seq(Products)
    BY <1>6, ListedRows
  <2> QED BY <1>6, <2>1 DEF Listing, Range
<1> QED
  BY <1>1, <1>2, <1>3, <1>4, <1>5, <1>6 DEF CoveredBy, StoredKept, AllStored

(* A job's step within the rows it has listed: what it lays down, it has   *)
(* stored.                                                                 *)
LEMMA CoverMoves ==
    ASSUME ImagesInv, NEW c \in Configs, CoveredBy(c), StoredKept, taken' = taken,
           job[c].step # "none",
           job'[c].snap = job[c].snap, job'[c].offset = job[c].offset,
           job'[c].step # "complete",
           job'[c].failed = 0 => /\ job[c].failed = 0
                                 /\ \A p \in InHand(c) \ InHand(c)' : docs'[p].stored
    PROVE  CoveredBy(c)'
<1>1. Listed(c)' = Listed(c)
  BY ListedKept
<1>2. Active(c)' = Active(c)
  BY DEF Active
<1>3. Listing(c)' = Listing(c)
  BY <1>1 DEF Listing
<1>4. ASSUME job[c].offset \in 0..Len(Listed(c))
      PROVE  Listing(c) \subseteq Products
  <2>1. Listed(c) \in Seq(Products)
    BY ListedRows
  <2> QED BY <1>4, <2>1 DEF Listing, Range
<1> QED
  BY <1>1, <1>2, <1>3, <1>4 DEF CoveredBy, StoredKept

(* What a step changes of its job. *)
LEMMA StepChanges ==
    ASSUME JobTypes, NEW c \in Configs, NEW fields, Step(c, fields)
    PROVE  /\ \A d \in Configs \ {c} : job'[d] = job[d]
           /\ \A x \in { "step", "snap", "offset", "batch", "need", "got", "to_do",
                         "failed" } :
                 job'[c][x] = IF x \in DOMAIN fields THEN fields[x] ELSE job[c][x]
<1>1. DOMAIN job = Configs /\ job' = [job EXCEPT ![c] = With(job[c], fields)]
  BY DEF Step, JobTypes
<1>2. DOMAIN job[c] = { "step", "snap", "token", "offset", "batch", "links", "need", "got",
                        "to_do", "total", "synced", "failed" }
  BY DEF JobTypes, Job
<1>3. job'[c] = With(job[c], fields)
  BY <1>1
<1> QED BY <1>1, <1>2, <1>3, Changed

LEMMA JobListCovers ==
    ASSUME ImagesInv, JobTypes, NEW c \in Configs, CoveredBy(c), JobList(c), taken' = taken
    PROVE  CoveredBy(c)'
<1>1. job[c].step = "list" /\ docs' = docs /\ Active(c)' = Active(c)
  BY DEF JobList, Active
<1>2. SUFFICES ASSUME job'[c].snap = job[c].snap, job[c].snap = Active(c)
               PROVE  CoveredBy(c)'
  <2>1. job'[c].snap = job[c].snap
    <3>1. CASE Step(c, [step |-> "complete"])
      BY <3>1, StepChanges
    <3>2. CASE Step(c, [ step |-> "link", batch |-> Range(NextBatch(c)),
                         offset |-> job[c].offset + Len(NextBatch(c)) ])
      BY <3>2, StepChanges
    <3> QED BY <3>1, <3>2 DEF JobList
  <2> QED BY <1>1, <2>1 DEF CoveredBy
<1>3. /\ Listed(c)' = Listed(c)
      /\ WithUrl(c, Active(c))' = WithUrl(c, Active(c))
  BY <1>1, <1>2, ListedKept DEF WithUrl, Exists, Active
<1>4. /\ job[c].offset \in 0..Len(Listed(c))
      /\ job[c].failed = 0 => \A p \in Listing(c) : docs[p].stored
  BY <1>1, <1>2 DEF CoveredBy, InHand
<1>5. /\ Listed(c) \in Seq(Products) /\ Len(Listed(c)) \in Nat
      /\ Range(Listed(c)) = WithUrl(c, Active(c))
  BY <1>1, <1>2, ListedRows
<1>6. /\ NextBatch(c) \in Seq(Products)
      /\ job[c].offset + Len(NextBatch(c)) \in 0..Len(Listed(c))
      /\ SubSeq(Listed(c), 1, job[c].offset) \o NextBatch(c)
            = SubSeq(Listed(c), 1, job[c].offset + Len(NextBatch(c)))
      /\ NextBatch(c) = <<>> => job[c].offset = Len(Listed(c))
  BY <1>1, <1>4, NextBatchRows
<1>7. CASE NextBatch(c) = <<>>
  <2>1. Step(c, [step |-> "complete"])
    BY <1>7 DEF JobList
  <2>2. /\ job'[c].step = "complete" /\ job'[c].offset = job[c].offset
        /\ job'[c].failed = job[c].failed
    BY <2>1, StepChanges
  <2>3. SubSeq(Listed(c), 1, job[c].offset) = Listed(c)
    BY <1>5, <1>6, <1>7
  <2>4. Listing(c) = WithUrl(c, Active(c)) /\ Listing(c)' = Listing(c)
    BY <1>3, <1>5, <2>2, <2>3 DEF Listing
  <2> QED BY <1>1, <1>3, <1>4, <2>2, <2>4 DEF CoveredBy, AllStored, Active
<1>8. CASE NextBatch(c) # <<>>
  <2>1. PICK n, b : n = job[c].offset + Len(NextBatch(c)) /\ b = Range(NextBatch(c))
    OBVIOUS
  <2>2. Step(c, [step |-> "link", batch |-> b, offset |-> n])
    BY <1>8, <2>1 DEF JobList
  <2>3. /\ job'[c].step = "link" /\ job'[c].offset = n /\ job'[c].batch = b
        /\ job'[c].failed = job[c].failed
    BY <2>2, StepChanges
  <2>4. InHand(c)' = b
    BY <2>3 DEF InHand
  <2>5. Listing(c)' = Range(SubSeq(Listed(c), 1, job[c].offset) \o NextBatch(c))
    BY <1>3, <1>6, <2>1, <2>3 DEF Listing
  <2>6. Listing(c)' \subseteq Listing(c) \cup b
    <3>1. PICK s : s = SubSeq(Listed(c), 1, job[c].offset)
      OBVIOUS
    <3>2. s \in Seq(Products)
      BY <1>4, <1>5, <3>1
    <3>3. Range(s \o NextBatch(c)) = Range(s) \cup Range(NextBatch(c))
      BY <1>6, <3>2, RangeConcatenation
    <3> QED BY <2>1, <2>5, <3>1, <3>3 DEF Listing
  <2> QED BY <1>1, <1>3, <1>4, <1>6, <2>1, <2>3, <2>4, <2>6 DEF CoveredBy
<1> QED BY <1>7, <1>8

LEMMA ListedProducts ==
    \A c \in Configs : ImagesInv /\ job[c].step # "none" => Listed(c) \in Seq(Products)
  BY ListedRows

LEMMA ListedNext ==
    (\A c \in Configs : ImagesInv /\ job[c].step # "none" => Listed(c) \in Seq(Products))'
  BY ListedProducts, PTL

(* A step of a config's job, of whichever kind. *)
LEMMA JobStepCovers ==
    ASSUME ImagesInv, JobTypes, NEW c \in Configs, CoveredBy(c), StoredKept, JobStep(c)
    PROVE  CoveredBy(c)'
<1>0. /\ job[c].need \in SUBSET Products /\ job[c].to_do \in SUBSET {"docs", "rows"}
      /\ job[c].failed \in Nat /\ taken' = taken
  <2>2. taken' = taken
    <3>1. CASE JobFetch(c)
      BY <3>1 DEF JobFetch, passVars
    <3>2. CASE JobBegins(c)
      BY <3>2 DEF JobBegins, passVars
    <3> QED
      BY <3>1, <3>2
      DEF JobStep, JobStart, JobList, JobLink, JobLinkRows, JobNeed, JobComplete,
          JobStore, JobRemove, JobOnly, passVars
  <2> QED BY <2>2 DEF JobTypes, Job
<1>1. CASE JobBegins(c)
  <2>1. /\ job'[c].step = "start" /\ job'[c].offset = 0 /\ job'[c].failed = 0
        /\ ImagesInv'
    BY <1>1, JobBeginsKeeps DEF JobBegins, NoJob, JobTypes
  <2>2. Listed(c)' \in Seq(Products)
    BY <2>1, ListedNext
  <2>3. Listing(c)' = {}
    BY <2>1, <2>2 DEF Listing, Range
  <2> QED BY <2>1, <2>2, <2>3 DEF CoveredBy
<1>2. CASE JobStart(c)
  <2>1. PICK n : Step(c, [step |-> "list", total |-> n])
    BY <1>2 DEF JobStart
  <2>2. /\ job'[c].step = "list" /\ job'[c].snap = job[c].snap
        /\ job'[c].offset = job[c].offset /\ job'[c].failed = job[c].failed
    BY <2>1, StepChanges
  <2>3. InHand(c) = {}
    BY <1>2 DEF JobStart, InHand
  <2> QED BY <1>0, <1>2, <2>2, <2>3, CoverMoves DEF JobStart
<1>3. CASE JobList(c)
  BY <1>0, <1>3, JobListCovers
<1>4. CASE JobLink(c)
  <2>1. PICK links : Step(c, [step |-> "linkRows", links |-> links])
    BY <1>4 DEF JobLink
  <2>2. /\ job'[c].step = "linkRows" /\ job'[c].snap = job[c].snap
        /\ job'[c].offset = job[c].offset /\ job'[c].failed = job[c].failed
        /\ job'[c].batch = job[c].batch
    BY <2>1, StepChanges
  <2>3. InHand(c) = job[c].batch /\ InHand(c)' = job[c].batch
    BY <1>4, <2>2 DEF JobLink, InHand
  <2> QED BY <1>0, <1>4, <2>2, <2>3, CoverMoves DEF JobLink
<1>5. CASE JobLinkRows(c)
  <2>1. PICK n : Step(c, [step |-> "need", links |-> NoImages, synced |-> n])
    BY <1>5 DEF JobLinkRows
  <2>2. /\ job'[c].step = "need" /\ job'[c].snap = job[c].snap
        /\ job'[c].offset = job[c].offset /\ job'[c].failed = job[c].failed
        /\ job'[c].batch = job[c].batch
    BY <2>1, StepChanges
  <2>3. InHand(c) = job[c].batch /\ InHand(c)' = job[c].batch
    BY <1>5, <2>2 DEF JobLinkRows, InHand
  <2> QED BY <1>0, <1>5, <2>2, <2>3, CoverMoves DEF JobLinkRows
<1>6. CASE JobNeed(c)
  <2>1. PICK need : need = {p \in job[c].batch : Needed(c, p)}
    OBVIOUS
  <2>2. \A p \in job[c].batch \ need : docs'[p].stored
    <3>1. docs' = docs
      BY <1>6 DEF JobNeed
    <3> QED BY <2>1, <3>1 DEF Needed
  <2>3. CASE need = {} /\ Step(c, [step |-> "list", batch |-> {}])
    <3>1. /\ job'[c].step = "list" /\ job'[c].snap = job[c].snap
          /\ job'[c].offset = job[c].offset /\ job'[c].failed = job[c].failed
      BY <2>3, StepChanges
    <3>2. InHand(c) = job[c].batch
      BY <1>6 DEF JobNeed, InHand
    <3> QED BY <1>0, <1>6, <2>2, <2>3, <3>1, <3>2, CoverMoves DEF JobNeed
  <2>4. CASE Step(c, [step |-> "fetch", need |-> need])
    <3>1. /\ job'[c].step = "fetch" /\ job'[c].snap = job[c].snap
          /\ job'[c].offset = job[c].offset /\ job'[c].failed = job[c].failed
          /\ job'[c].need = need
      BY <2>4, StepChanges
    <3>2. InHand(c) = job[c].batch /\ InHand(c)' = need
      BY <1>6, <3>1 DEF JobNeed, InHand
    <3> QED BY <1>0, <1>6, <2>2, <3>1, <3>2, CoverMoves DEF JobNeed
  <2> QED BY <1>6, <2>1, <2>3, <2>4 DEF JobNeed
<1>7. CASE JobFetch(c)
  <2>1. PICK failing \in SUBSET job[c].need, got \in {With(NoImages, f) : f \in
                    [job[c].need -> UNION {Answers(p) : p \in job[c].need}]} :
           Step(c, [ step |-> "store", to_do |-> {"docs", "rows"},
                     need |-> job[c].need \ failing, got |-> got,
                     failed |-> job[c].failed + Cardinality(failing) ])
    BY <1>7 DEF JobFetch
  <2>2. PICK need, n : /\ need = job[c].need \ failing
                       /\ n = job[c].failed + Cardinality(failing)
    OBVIOUS
  <2>3. Step(c, [ step |-> "store", to_do |-> {"docs", "rows"},
                  need |-> need, got |-> got, failed |-> n ])
    BY <2>1, <2>2
  <2>4. /\ job'[c].step = "store" /\ job'[c].snap = job[c].snap
        /\ job'[c].offset = job[c].offset /\ job'[c].failed = n
        /\ job'[c].need = need /\ job'[c].to_do = {"docs", "rows"}
    BY <2>3, StepChanges
  <2>5. InHand(c) = job[c].need /\ InHand(c)' = need
    BY <1>7, <2>4 DEF JobFetch, InHand
  <2>6. ASSUME n = 0 PROVE job[c].failed = 0 /\ failing = {}
    <3>1. IsFiniteSet(failing) /\ Cardinality(failing) \in Nat
      BY <1>0, SomeProducts
    <3>2. Cardinality(failing) = 0 /\ job[c].failed = 0
      BY <1>0, <2>2, <2>6, <3>1
    <3> QED BY <3>1, <3>2, FS_EmptySet
  <2> QED BY <1>0, <1>7, <2>2, <2>4, <2>5, <2>6, CoverMoves DEF JobFetch
<1>8. ASSUME NEW what \in {"docs", "rows"}, JobStore(c, what) PROVE CoveredBy(c)'
  <2>1. PICK left, images : left = job[c].to_do \ {what} /\ images = Images(c)
    OBVIOUS
  <2>2. what = "docs" => \A p \in images : docs'[p].stored
    BY <1>8, <2>1 DEF JobStore, Stored, Images, Given
  <2>3. /\ what \in job[c].to_do /\ job[c].step = "store"
        /\ images \subseteq job[c].need
        /\ InHand(c) = IF "docs" \in job[c].to_do THEN job[c].need
                       ELSE job[c].need \ images
    BY <1>8, <2>1 DEF JobStore, InHand, Images
  <2>4. CASE left # {} /\ Step(c, [to_do |-> left])
    <3>1. /\ job'[c].step = "store" /\ job'[c].snap = job[c].snap
          /\ job'[c].offset = job[c].offset /\ job'[c].failed = job[c].failed
          /\ job'[c].need = job[c].need /\ job'[c].got = job[c].got
          /\ job'[c].to_do = left
      BY <2>3, <2>4, StepChanges
    <3>2. Images(c)' = images
      BY <2>1, <3>1 DEF Images
    <3>3. InHand(c)' = IF "docs" \in left THEN job[c].need ELSE job[c].need \ images
      BY <3>1, <3>2 DEF InHand
    <3>4. \A p \in InHand(c) \ InHand(c)' : docs'[p].stored
      BY <2>1, <2>2, <2>3, <3>3
    <3> QED BY <1>0, <2>3, <3>1, <3>4, CoverMoves
  <2>5. ASSUME left = {}, NEW null, null = job[c].need \ images, NEW n,
               Step(c, [ step |-> "remove", to_do |-> {"docs", "rows"},
                         need |-> null, synced |-> n ])
        PROVE  CoveredBy(c)'
    <3>1. /\ job'[c].step = "remove" /\ job'[c].snap = job[c].snap
          /\ job'[c].offset = job[c].offset /\ job'[c].failed = job[c].failed
          /\ job'[c].need = null /\ job'[c].to_do = {"docs", "rows"}
      BY <2>5, StepChanges
    <3>2. InHand(c)' = null
      BY <3>1 DEF InHand
    <3>3. \A p \in InHand(c) \ InHand(c)' : docs'[p].stored
      BY <2>1, <2>2, <2>3, <2>5, <3>2
    <3> QED BY <1>0, <2>3, <3>1, <3>3, CoverMoves
  <2> QED BY <1>8, <2>1, <2>4, <2>5 DEF JobStore
<1>9. ASSUME NEW what \in {"docs", "rows"}, JobRemove(c, what) PROVE CoveredBy(c)'
  <2>1. PICK left : left = job[c].to_do \ {what}
    OBVIOUS
  <2>2. what = "docs" => \A p \in job[c].need : docs'[p].stored
    BY <1>0, <1>9 DEF JobRemove, Stored
  <2>3. /\ what \in job[c].to_do /\ job[c].step = "remove"
        /\ InHand(c) = IF "docs" \in job[c].to_do THEN job[c].need ELSE {}
    BY <1>9 DEF JobRemove, InHand
  <2>4. CASE left # {} /\ Step(c, [to_do |-> left])
    <3>1. /\ job'[c].step = "remove" /\ job'[c].snap = job[c].snap
          /\ job'[c].offset = job[c].offset /\ job'[c].failed = job[c].failed
          /\ job'[c].need = job[c].need /\ job'[c].to_do = left
      BY <2>3, <2>4, StepChanges
    <3>2. InHand(c)' = IF "docs" \in left THEN job[c].need ELSE {}
      BY <3>1 DEF InHand
    <3>3. \A p \in InHand(c) \ InHand(c)' : docs'[p].stored
      BY <2>1, <2>2, <2>3, <3>2
    <3> QED BY <1>0, <2>3, <3>1, <3>3, CoverMoves
  <2>5. CASE left = {} /\ Step(c, [ step |-> "list", to_do |-> {}, batch |-> {},
                                    need |-> {}, got |-> NoImages ])
    <3>1. /\ job'[c].step = "list" /\ job'[c].snap = job[c].snap
          /\ job'[c].offset = job[c].offset /\ job'[c].failed = job[c].failed
      BY <2>5, StepChanges
    <3>2. \A p \in InHand(c) : docs'[p].stored
      BY <2>1, <2>2, <2>3, <2>5
    <3> QED BY <1>0, <2>3, <3>1, <3>2, CoverMoves
  <2> QED BY <1>9, <2>1, <2>4, <2>5 DEF JobRemove
<1>10. CASE JobComplete(c)
  <2>1. job'[c].step = "none"
    BY <1>10 DEF JobComplete, JobTypes, NoJob
  <2> QED BY <2>1 DEF CoveredBy
<1> QED
  BY <1>1, <1>2, <1>3, <1>4, <1>5, <1>6, <1>7, <1>8, <1>9, <1>10 DEF JobStep

LEMMA OtherJobsStand ==
    ASSUME JobTypes, NEW c \in Configs, JobStep(c)
    PROVE  taken' = taken /\ \A d \in Configs \ {c} : job'[d] = job[d]
<1>1. taken' = taken
  <2>1. CASE JobFetch(c)
    BY <2>1 DEF JobFetch, passVars
  <2>2. CASE JobBegins(c)
    BY <2>2 DEF JobBegins, passVars
  <2> QED
    BY <2>1, <2>2
    DEF JobStep, JobStart, JobList, JobLink, JobLinkRows, JobNeed, JobComplete,
        JobStore, JobRemove, JobOnly, passVars
<1>2. ASSUME NEW fields, Step(c, fields)
      PROVE  \A d \in Configs \ {c} : job'[d] = job[d]
  BY <1>2, StepChanges
<1>3. ASSUME NEW new, job' = [job EXCEPT ![c] = new]
      PROVE  \A d \in Configs \ {c} : job'[d] = job[d]
  BY <1>3 DEF JobTypes
<1>4. CASE JobBegins(c) \/ JobComplete(c)
  <2>1. PICK new : job' = [job EXCEPT ![c] = new]
    BY <1>4 DEF JobBegins, JobComplete
  <2> QED BY <1>1, <1>3, <2>1
<1> QED
  BY <1>1, <1>2, <1>4
  DEF JobStep, JobStart, JobList, JobLink, JobLinkRows, JobNeed, JobFetch, JobStore,
      JobRemove

(* The active snapshot's rows with an image change by a publication only. *)
LEMMA CompleteStays ==
    ASSUME ImagesInv, CompleteStoredAll, StoredKept, NEW c \in Configs,
           taken'[c] = taken[c],
           imaging'[c].status = "complete" => imaging[c].status = "complete"
    PROVE  imaging'[c].status = "complete" => AllStored(c)'
  BY DEF CompleteStoredAll, AllStored, StoredKept, Active, WithUrl, Exists

LEMMA CompleteStep ==
    ASSUME ImagesInv, TypesInv, CoverInv, StoredKept, NEW c \in Configs, JobStep(c)
    PROVE  CompleteStoredAll'
<1>0. taken' = taken /\ imaging \in [Configs -> Imaging]
  BY OtherJobsStand DEF TypesInv, ReportTypes
<1>1. ASSUME NEW new, imaging' = Report(c, new),
             new.status = "complete" /\ job[c].snap = Active(c) => AllStored(c)
      PROVE  CompleteStoredAll'
  <2>1. ASSUME NEW d \in Configs, imaging'[d].status = "complete" PROVE AllStored(d)'
    <3>1. CASE d = c /\ job[c].snap = Active(c)
      <4>1. imaging'[c] = new
        BY <1>0, <1>1, <3>1 DEF Report
      <4>2. AllStored(c)
        BY <1>1, <2>1, <3>1, <4>1
      <4> QED BY <1>0, <3>1, <4>2 DEF AllStored, StoredKept, WithUrl, Exists, Active
    <3>2. CASE d # c \/ job[c].snap # Active(c)
      <4>1. imaging'[d] = imaging[d]
        BY <1>0, <1>1, <3>2 DEF Report
      <4> QED BY <1>0, <2>1, <4>1, CompleteStays DEF CoverInv
    <3> QED BY <3>1, <3>2
  <2> QED BY <2>1 DEF CompleteStoredAll, AllStored
<1>2. ASSUME UNCHANGED imaging PROVE CompleteStoredAll'
  <2>1. \A d \in Configs : imaging'[d].status = "complete" => AllStored(d)'
    BY <1>0, <1>2, CompleteStays DEF CoverInv
  <2> QED BY <2>1 DEF CompleteStoredAll, AllStored
<1>3. CASE JobStart(c)
  <2>1. PICK n : imaging' = Report(c, [ status |-> "running", total |-> n,
                                        synced |-> 0, failed |-> 0 ])
    BY <1>3 DEF JobStart
  <2> QED BY <1>1, <2>1
<1>4. CASE JobComplete(c)
  <2>1. PICK new : /\ new.status = IF job[c].failed > 0 THEN "failed" ELSE "complete"
                   /\ imaging' = Report(c, new)
    BY <1>4 DEF JobComplete
  <2>2. ASSUME new.status = "complete", job[c].snap = Active(c) PROVE AllStored(c)
    <3>1. job[c].failed = 0
      BY <2>1, <2>2 DEF TypesInv, JobTypes, Job
    <3> QED BY <1>4, <2>2, <3>1 DEF JobComplete, CoverInv, CoveredBy
  <2> QED BY <1>1, <2>1, <2>2
<1>5. ASSUME ~JobStart(c), ~JobComplete(c) PROVE UNCHANGED imaging
  BY <1>5 DEF JobStep, JobBegins, JobList, JobLink, JobLinkRows, JobNeed, JobFetch,
              JobStore, JobRemove
<1> QED BY <1>2, <1>3, <1>4, <1>5

LEMMA NextCovered ==
    ASSUME ImagesInv, TypesInv, CoverInv, [Next]_vars
    PROVE  CoverInv'
<1>0. StoredKept /\ JobTypes
  BY NextStored DEF TypesInv
<1>1. ASSUME NEW c \in Configs, JobStep(c) PROVE CoverInv'
  <2>1. ASSUME NEW d \in Configs \ {c} PROVE CoveredBy(d)'
    BY <1>0, <1>1, OtherJobsStand, CoverStays DEF CoverInv
  <2>2. CoveredBy(c)'
    BY <1>0, <1>1, JobStepCovers DEF CoverInv
  <2>3. CompleteStoredAll'
    BY <1>0, <1>1, CompleteStep
  <2> QED BY <2>1, <2>2, <2>3 DEF CoverInv
<1>2. ASSUME NEW c \in Configs, ConfigPublished(c) PROVE CoverInv'
  <2>1. /\ taken' = [taken EXCEPT ![c] = Append(@, odoo)] /\ job' = job
        /\ imaging' = [imaging EXCEPT ![c] = [ status |-> "pending", total |-> 0,
                                               synced |-> 0, failed |-> 0 ]]
    BY <1>2 DEF ConfigPublished
  <2>2. /\ taken \in [Configs -> Seq([Products -> Record])] /\ odoo \in [Products -> Record]
        /\ imaging \in [Configs -> Imaging]
    BY DEF ImagesInv, Records, TypesInv, ReportTypes
  <2>3. Active(c)' = Active(c) + 1 /\ Active(c) \in Nat
    BY <2>1, <2>2 DEF Active
  <2>4. CoveredBy(c)'
    <3>1. job[c].step # "none" => job[c].snap \in 1..Active(c)
      BY RowsTyped
    <3> QED BY <2>1, <2>3, <3>1 DEF CoveredBy
  <2>5. ASSUME NEW d \in Configs \ {c}
        PROVE  CoveredBy(d)' /\ (imaging'[d].status = "complete" => AllStored(d)')
    <3>1. taken'[d] = taken[d] /\ job'[d] = job[d] /\ imaging'[d] = imaging[d]
      BY <2>1, <2>2
    <3> QED BY <1>0, <3>1, CoverStays, CompleteStays DEF CoverInv
  <2>6. imaging'[c].status # "complete"
    BY <2>1, <2>2
  <2> QED BY <2>4, <2>5, <2>6 DEF CoverInv, CompleteStoredAll, AllStored
<1>3. ASSUME taken' = taken,
             \A c \in Configs : job'[c] = job[c] \/ job'[c].step = "none",
             \A c \in Configs : imaging'[c].status = "complete"
                                   => imaging[c].status = "complete"
      PROVE  CoverInv'
  <2>1. ASSUME NEW c \in Configs PROVE CoveredBy(c)'
    <3>1. CASE job'[c] = job[c]
      BY <1>0, <1>3, <3>1, CoverStays DEF CoverInv
    <3>2. CASE job'[c].step = "none"
      BY <3>2 DEF CoveredBy
    <3> QED BY <1>3, <3>1, <3>2
  <2>2. \A c \in Configs : imaging'[c].status = "complete" => AllStored(c)'
    BY <1>0, <1>3, CompleteStays DEF CoverInv
  <2> QED BY <2>1, <2>2 DEF CoverInv, CompleteStoredAll, AllStored
<1>4. ASSUME NEW c \in Configs, ConfigUnchanged(c) \/ ConfigLocked(c) PROVE CoverInv'
  BY <1>3, <1>4 DEF ConfigUnchanged, ConfigLocked, jobVars
<1>5. ASSUME NEW c \in Configs, JobThrows(c) PROVE CoverInv'
  <2>1. job' = [job EXCEPT ![c] = NoJob] /\ taken' = taken /\ imaging' = imaging
    BY <1>5 DEF JobThrows, passVars
  <2>2. \A d \in Configs : job'[d] = job[d] \/ job'[d].step = "none"
    BY <1>0, <2>1 DEF JobTypes, NoJob
  <2> QED BY <1>3, <2>1, <2>2
<1>6. ASSUME NEW c \in Configs, MarkFailed(c) PROVE CoverInv'
  <2>1. job' = job /\ taken' = taken
    BY <1>6 DEF MarkFailed, passVars
  <2>2. imaging' = imaging \/ imaging' = [imaging EXCEPT ![c].status = "failed"]
    BY <1>6 DEF MarkFailed
  <2>3. \A d \in Configs : imaging'[d].status = "complete" => imaging[d].status = "complete"
    BY <2>2 DEF TypesInv, ReportTypes, Imaging
  <2> QED BY <1>3, <2>1, <2>3
<1>7. CASE Restart
  <2>1. job' = [c \in Configs |-> NoJob] /\ taken' = taken /\ imaging' = imaging
    BY <1>7 DEF Restart
  <2> QED BY <1>3, <2>1 DEF NoJob
<1>8. ASSUME NEW s \in SUBSET (0..token), PassBegins(s) PROVE CoverInv'
  BY <1>3, <1>8 DEF PassBegins, jobVars
<1>9. ASSUME NEW p \in Products, NEW has \in BOOLEAN, OdooImage(p, has) PROVE CoverInv'
  BY <1>3, <1>9 DEF OdooImage, passVars, jobVars
<1>10. CASE PassEnds \/ PassThrows \/ SessionRevoked \/ UNCHANGED vars
  BY <1>3, <1>10 DEF PassEnds, PassThrows, SessionRevoked, vars, passVars, jobVars
<1> QED
  BY <1>1, <1>2, <1>4, <1>5, <1>6, <1>7, <1>8, <1>9, <1>10
     DEF Next, PassStep, PassFails, PassRefused

(* Image state "complete" is never premature: every product of the active  *)
(* snapshot that has an image has its document, however the batches fell,  *)
(* whatever jobs of other configs and of older snapshots stored meanwhile, *)
(* and after failed requests and restarts (syncImagesForProducts counts    *)
(* each failed request, and markImageSyncComplete says "failed" if one     *)
(* did).                                                                   *)
THEOREM CompleteStored == Spec => []CompleteStoredAll
<1>1. Init => CoverInv
  BY NoJobTyped DEF Init, CoverInv, CoveredBy, CompleteStoredAll, NoJob
<1>2. ImagesInv /\ TypesInv /\ CoverInv /\ [Next]_vars => CoverInv'
  BY NextCovered
<1>3. CoverInv => CompleteStoredAll
  BY DEF CoverInv
<1> QED
  BY <1>1, <1>2, <1>3, ImagesInvariant, TypesInvariant, PTL DEF Spec

=============================================================================
