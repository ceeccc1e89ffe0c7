---------------------------- MODULE PortalProofs ----------------------------
(***************************************************************************)
(* Safety of publications, applications and their files, for any number of *)
(* requests, files and documents.                                          *)
(***************************************************************************)
EXTENDS Portal, TLAPS

USE PortalAssumption DEF PortalAssumption

-----------------------------------------------------------------------------
(* Types.  An update has, from its beginning, a publication to write.      *)

Goal(t) == IF t.pc = "upload" THEN t.then ELSE t.pc

TypedTask(t) ==
    /\ t \in Task
    /\ Goal(t) = "update" => t.publication \in Publication

TypeInv == TypeOK /\ \A r \in Request : TypedTask(task[r])

LEMMA IdleTyped == TypedTask(Idle) /\ Idle.pc = "idle" /\ Idle.files = {}
  BY DEF TypedTask, Idle, Task, Pc, Goal

LEMMA TypeInit == Init => TypeInv
  <1> SUFFICES ASSUME Init PROVE TypeInv
    OBVIOUS
  <1>1. publication \in [Publication -> PublicationRow]
    BY DEF Init, PublicationRow, NoPublication
  <1>2. application \in [Application -> ApplicationRow]
    BY DEF Init, ApplicationRow, NoApplication
  <1>3. task \in [Request -> Task] /\ \A r \in Request : TypedTask(task[r])
    BY IdleTyped DEF Init, TypedTask
  <1>4. /\ upload \in [File -> Upload]
        /\ temp \subseteq File /\ object \subseteq File
        /\ loose \subseteq File /\ named \subseteq File /\ left \subseteq File
    BY DEF Init, Upload
  <1> QED
    BY <1>1, <1>2, <1>3, <1>4 DEF TypeInv, TypeOK

\* A step that runs r with a typed task.
LEMMA RunTyped ==
  ASSUME TypeInv, NEW r \in Request, NEW t, TypedTask(t), Run(r, t)
  PROVE  task' \in [Request -> Task] /\ \A s \in Request : TypedTask(task'[s])
  BY DEF TypeInv, TypeOK, TypedTask, Run

\* What the steps of a request do to its task alone.
LEMMA FinishTyped ==
  ASSUME TypeInv, NEW r \in Request, Finish(r)
  PROVE  task' \in [Request -> Task] /\ \A s \in Request : TypedTask(task'[s])
  BY RunTyped, IdleTyped DEF Finish

LEMMA GotoTyped ==
  ASSUME TypeInv, NEW r \in Request, NEW l \in Pc, Goto(r, l),
         l = "update" => task[r].publication \in Publication,
         l # "upload"
  PROVE  task' \in [Request -> Task] /\ \A s \in Request : TypedTask(task'[s])
  <1>1. TypedTask([task[r] EXCEPT !.pc = l])
    BY DEF TypeInv, TypeOK, TypedTask, Task, Goal
  <1> QED
    BY <1>1, RunTyped DEF Goto

LEMMA BeginTyped ==
  ASSUME TypeInv, NEW r \in Request, NEW t \in Task, Begin(r, t),
         t.then = "update" => t.publication \in Publication
  PROVE  TypeInv'
  <1>1. TypedTask([t EXCEPT !.pc = IF t.files = {} THEN t.then ELSE "upload"])
    BY DEF TypedTask, Task, Goal, Pc
  <1>2. task' \in [Request -> Task] /\ \A s \in Request : TypedTask(task'[s])
    BY <1>1, RunTyped DEF Begin
  <1>3. upload' \in [File -> Upload] /\ temp' \subseteq File
    BY DEF Begin, TypeInv, TypeOK, Upload, Task
  <1> QED
    BY <1>2, <1>3 DEF Begin, TypeInv, TypeOK

LEMMA BeginsTyped ==
  ASSUME TypeInv, NEW r \in Request,
         BeginUpload(r) \/ BeginCreate(r) \/ BeginUpdate(r) \/ BeginApply(r)
  PROVE  TypeInv'
  <1>1. CASE BeginUpload(r)
    <2>1. PICK F \in SUBSET File : Begin(r, [Idle EXCEPT !.then = "answer", !.files = F])
      BY <1>1 DEF BeginUpload
    <2>2. [Idle EXCEPT !.then = "answer", !.files = F] \in Task
      BY IdleTyped DEF TypedTask, Task, Pc
    <2>3. [Idle EXCEPT !.then = "answer", !.files = F].then = "answer"
      BY IdleTyped DEF TypedTask, Task
    <2> QED
      BY <2>1, <2>2, <2>3, BeginTyped
  <1>2. CASE BeginCreate(r)
    <2>1. PICK F \in SUBSET File : Begin(r, [Idle EXCEPT !.then = "create", !.files = F])
      BY <1>2 DEF BeginCreate
    <2>2. [Idle EXCEPT !.then = "create", !.files = F] \in Task
      BY IdleTyped DEF TypedTask, Task, Pc
    <2>3. [Idle EXCEPT !.then = "create", !.files = F].then = "create"
      BY IdleTyped DEF TypedTask, Task
    <2> QED
      BY <2>1, <2>2, <2>3, BeginTyped
  <1>3. CASE BeginUpdate(r)
    <2>1. PICK d \in Publication, F \in SUBSET File :
             Begin(r, [Idle EXCEPT !.then = "update", !.files = F, !.publication = d])
      BY <1>3 DEF BeginUpdate
    <2> DEFINE t == [Idle EXCEPT !.then = "update", !.files = F, !.publication = d]
    <2>2. t \in Task /\ t.publication = d
      BY IdleTyped DEF TypedTask, Task, Pc
    <2>3. Begin(r, t)
      BY <2>1
    <2> QED
      BY <2>2, <2>3, BeginTyped
  <1>4. CASE BeginApply(r)
    <2>1. PICK d \in Publication, F \in SUBSET File, c \in Citizen :
             Begin(r, [Idle EXCEPT !.then = "scheme", !.files = F, !.publication = d,
                                   !.citizen = c])
      BY <1>4 DEF BeginApply
    <2> DEFINE t == [Idle EXCEPT !.then = "scheme", !.files = F, !.publication = d,
                                 !.citizen = c]
    <2>2. t \in Task /\ t.then = "scheme"
      BY IdleTyped DEF TypedTask, Task, Pc
    <2>3. Begin(r, t)
      BY <2>1
    <2> QED
      BY <2>2, <2>3, BeginTyped
  <1> QED
    BY <1>1, <1>2, <1>3, <1>4

\* What the writes store: a set of files, those just uploaded among them.
LEMMA CreateWrites ==
  ASSUME TypeInv, NEW r \in Request, NEW d \in Publication, NEW k \in Kind,
         CreatePublication(r, d, k)
  PROVE  \E active \in BOOLEAN, images \in SUBSET File :
            /\ task[r].files \subseteq images
            /\ images \subseteq task[r].files \cup Nameable
            /\ publication' = [publication EXCEPT
                   ![d] = [kind |-> k, isActive |-> active, images |-> images]]
            /\ named' = named \cup Objectless(images)
  <1> DEFINE Images(sent) == IF task[r].files = {} THEN sent ELSE task[r].files
  <1>1. PICK active \in BOOLEAN, sent \in SUBSET Nameable :
           /\ publication' = [publication EXCEPT
                  ![d] = [kind |-> k, isActive |-> active, images |-> Images(sent)]]
           /\ named' = named \cup Objectless(Images(sent))
    BY DEF CreatePublication
  <1>2. /\ Images(sent) \in SUBSET File
        /\ task[r].files \subseteq Images(sent)
        /\ Images(sent) \subseteq task[r].files \cup Nameable
    BY DEF Nameable, TypeInv, TypeOK, Task
  <1> HIDE DEF Images
  <1> QED
    BY <1>1, <1>2

LEMMA UpdateWrites ==
  ASSUME TypeInv, NEW r \in Request, NEW k \in Kind, UpdatePublication(r, k),
         task[r].publication \in Publication
  PROVE  LET d == task[r].publication
         IN  \E active \in BOOLEAN, images \in SUBSET File :
                /\ task[r].files \subseteq images
                /\ images \subseteq publication[d].images \cup Nameable
                /\ publication' = [publication EXCEPT ![d].isActive = active,
                                                      ![d].images = images]
                /\ loose' = loose \cup ((publication[d].images \ images) \cap object)
                /\ named' = named \cup Objectless(images)
  <1> DEFINE d == task[r].publication
             has == publication[d].images
  <1>1. PICK active \in BOOLEAN, images \in {has} \cup SUBSET Nameable :
           /\ task[r].files \subseteq images
           /\ publication' = [publication EXCEPT ![d].isActive = active, ![d].images = images]
           /\ loose' = loose \cup ((has \ images) \cap object)
           /\ named' = named \cup Objectless(images)
    BY DEF UpdatePublication
  <1>2. has \in SUBSET File
    BY DEF TypeInv, TypeOK, PublicationRow
  <1>3. images \in SUBSET File /\ images \subseteq has \cup Nameable
    BY <1>1, <1>2 DEF Nameable
  <1> QED
    BY <1>1, <1>3

LEMMA TypeStep ==
  ASSUME TypeInv, [Next]_vars
  PROVE  TypeInv'
  <1> USE DEF TypeInv, TypeOK
  <1>1. ASSUME NEW r \in Request, Uploaded(r)  PROVE TypeInv'
    <2>1. /\ task[r].then \in Pc
          /\ task[r].then = "update" => task[r].publication \in Publication
      BY <1>1 DEF Uploaded, At, TypedTask, Goal, Task
    <2>2. task' \in [Request -> Task] /\ \A s \in Request : TypedTask(task'[s])
      <3>1. TypedTask([task[r] EXCEPT !.pc = task[r].then])
        BY <2>1 DEF TypedTask, Task, Goal
      <3> QED
        BY <1>1, <3>1, RunTyped DEF Uploaded, Goto
    <2> QED
      BY <1>1, <2>2 DEF Uploaded
  <1>2. ASSUME NEW r \in Request, FailRequest(r)  PROVE TypeInv'
    <2>1. loose' \subseteq File
      BY <1>2 DEF FailRequest, Task
    <2> QED
      BY <1>2, <2>1, FinishTyped DEF FailRequest
  <1>3. ASSUME NEW r \in Request, NEW d \in Publication, NEW k \in Kind,
               CreatePublication(r, d, k)
        PROVE  TypeInv'
    <2>1. PICK active \in BOOLEAN, images \in SUBSET File :
             /\ publication' = [publication EXCEPT
                    ![d] = [kind |-> k, isActive |-> active, images |-> images]]
             /\ named' = named \cup Objectless(images)
      BY <1>3, CreateWrites
    <2>2. publication' \in [Publication -> PublicationRow]
      BY <2>1 DEF PublicationRow
    <2>3. named' \subseteq File
      BY <2>1 DEF Objectless
    <2> QED
      BY <1>3, <2>2, <2>3, FinishTyped DEF CreatePublication
  <1>4. ASSUME NEW r \in Request, NEW k \in Kind, UpdatePublication(r, k)  PROVE TypeInv'
    <2>1. task[r].publication \in Publication
      BY <1>4 DEF UpdatePublication, At, TypedTask, Goal
    <2> DEFINE d == task[r].publication
    <2>2. PICK active \in BOOLEAN, images \in SUBSET File :
             /\ publication' = [publication EXCEPT ![d].isActive = active, ![d].images = images]
             /\ loose' = loose \cup ((publication[d].images \ images) \cap object)
             /\ named' = named \cup Objectless(images)
      BY <1>4, <2>1, UpdateWrites
    <2>3. publication' \in [Publication -> PublicationRow]
      BY <2>1, <2>2 DEF PublicationRow
    <2>4. loose' \subseteq File /\ named' \subseteq File
      BY <2>2 DEF Objectless
    <2> QED
      BY <1>4, <2>3, <2>4, FinishTyped DEF UpdatePublication
  <1>5. ASSUME NEW r \in Request, ReadScheme(r)  PROVE TypeInv'
    BY <1>5, GotoTyped DEF ReadScheme, Pc
  <1>6. ASSUME NEW r \in Request, CheckExisting(r)  PROVE TypeInv'
    BY <1>6, GotoTyped DEF CheckExisting, Pc
  <1>7. ASSUME NEW r \in Request, NEW a \in Application, InsertApplication(r, a)
        PROVE  TypeInv'
    <2>1. application' \in [Application -> ApplicationRow]
      BY <1>7 DEF InsertApplication, ApplicationRow, Task
    <2> QED
      BY <1>7, <2>1, FinishTyped DEF InsertApplication
  <1>8. ASSUME NEW r \in Request, NEW F \in SUBSET File, RefuseFiles(r, F)  PROVE TypeInv'
    BY <1>8 DEF RefuseFiles, Upload
  <1>9. ASSUME NEW f \in File, StoreFile(f)  PROVE TypeInv'
    BY <1>9 DEF StoreFile, Upload
  <1>10. ASSUME NEW f \in File, FailFile(f)  PROVE TypeInv'
    BY <1>10 DEF FailFile, Upload
  <1>11. ASSUME NEW f \in File, DeleteImage(f)  PROVE TypeInv'
    BY <1>11 DEF DeleteImage, Upload
  <1>12. ASSUME NEW d \in Publication, Deactivate(d)  PROVE TypeInv'
    BY <1>12 DEF Deactivate, PublicationRow
  <1>13. ASSUME NEW a \in Application, NEW s \in Decisions, UpdateStatus(a, s)  PROVE TypeInv'
    BY <1>13 DEF UpdateStatus, Decisions, ApplicationRow
  <1>14. CASE Die
    <2>1. upload' \in [File -> Upload]
      BY <1>14 DEF Die, Upload
    <2>2. object' \subseteq File /\ loose' \subseteq File /\ left' \subseteq File
      BY <1>14 DEF Die, Task
    <2>3. task' \in [Request -> Task] /\ \A s \in Request : TypedTask(task'[s])
      BY <1>14, IdleTyped DEF Die, TypedTask
    <2> QED
      BY <1>14, <2>1, <2>2, <2>3 DEF Die
  <1>15. CASE UNCHANGED vars
    BY <1>15 DEF vars
  <1> QED
    BY <1>1, <1>2, <1>3, <1>4, <1>5, <1>6, <1>7, <1>8, <1>9, <1>10, <1>11, <1>12, <1>13,
       <1>14, <1>15, BeginsTyped
    DEF Next, RequestStep, UploadFails, WriteFails, AnswerUpload, CreateScheme, CreateEvent,
        CreateAnnouncement, UpdateScheme, UpdateEvent, UpdateAnnouncement, Kind

\* The state keeps its shape; in particular no application has a status the schema does not
\* know, though the service lets one pass.
THEOREM PortalTypeOKHolds == Spec => []TypeOK
  <1>1. TypeInv => TypeOK
    BY DEF TypeInv
  <1> QED
    BY <1>1, TypeInit, TypeStep, PTL DEF Spec

-----------------------------------------------------------------------------
(* Applications *)

\* Applications are made by the insert and change by decisions.
LEMMA ApplicationStep ==
  ASSUME [Next]_vars
  PROVE  \/ UNCHANGED application
         \/ \E r \in Request, a \in Application : InsertApplication(r, a)
         \/ \E a \in Application, s \in Decisions : UpdateStatus(a, s)
  <1>1. ASSUME NEW r \in Request,
               \/ BeginUpload(r) \/ BeginCreate(r) \/ BeginUpdate(r) \/ BeginApply(r)
        PROVE  UNCHANGED application
    BY <1>1 DEF BeginUpload, BeginCreate, BeginUpdate, BeginApply, Begin
  <1>2. ASSUME NEW r \in Request, NEW d \in Publication,
               CreateScheme(r, d) \/ CreateEvent(r, d) \/ CreateAnnouncement(r, d)
        PROVE  UNCHANGED application
    BY <1>2 DEF CreateScheme, CreateEvent, CreateAnnouncement, CreatePublication
  <1>3. ASSUME NEW r \in Request, UpdateScheme(r) \/ UpdateEvent(r) \/ UpdateAnnouncement(r)
        PROVE  UNCHANGED application
    BY <1>3 DEF UpdateScheme, UpdateEvent, UpdateAnnouncement, UpdatePublication
  <1>4. ASSUME NEW r \in Request,
               \/ Uploaded(r) \/ UploadFails(r) \/ WriteFails(r) \/ AnswerUpload(r)
               \/ ReadScheme(r) \/ CheckExisting(r)
               \/ \E F \in SUBSET File : RefuseFiles(r, F)
        PROVE  UNCHANGED application
    BY <1>4 DEF Uploaded, UploadFails, WriteFails, AnswerUpload, FailRequest, ReadScheme,
                CheckExisting, RefuseFiles
  <1>5. ASSUME NEW f \in File, StoreFile(f) \/ FailFile(f) \/ DeleteImage(f)
        PROVE  UNCHANGED application
    BY <1>5 DEF StoreFile, FailFile, DeleteImage
  <1>6. CASE Die \/ (\E d \in Publication : Deactivate(d)) \/ UNCHANGED vars
    BY <1>6 DEF Die, Deactivate, vars
  <1> QED
    BY <1>1, <1>2, <1>3, <1>4, <1>5, <1>6 DEF Next, RequestStep

LEMMA OneApplicationStep ==
  ASSUME TypeInv, OneApplication, [Next]_vars
  PROVE  OneApplication'
  <1>1. CASE UNCHANGED application
    BY <1>1 DEF OneApplication, Made
  <1>2. ASSUME NEW r \in Request, NEW a \in Application, InsertApplication(r, a)
        PROVE  OneApplication'
    <2>1. /\ application'[a].citizen = task[r].citizen
          /\ application'[a].scheme = task[r].publication
          /\ \A b \in Application : b # a => application'[b] = application[b]
      BY <1>2 DEF InsertApplication, TypeInv, TypeOK
    <2>2. ~Applied(task[r].citizen, task[r].publication)
      BY <1>2 DEF InsertApplication
    <2>3. \A b \in Application : b # a /\ Made(b)' =>
             ~(/\ application'[b].citizen = application'[a].citizen
               /\ application'[b].scheme = application'[a].scheme)
      BY <2>1, <2>2 DEF Applied, Made
    <2> QED
      BY <2>1, <2>3 DEF OneApplication, Made
  <1>3. ASSUME NEW a \in Application, NEW s \in Decisions, UpdateStatus(a, s)
        PROVE  OneApplication'
    <2>1. \A b \in Application : /\ application'[b].citizen = application[b].citizen
                                 /\ application'[b].scheme = application[b].scheme
                                 /\ Made(b)' => Made(b)
      BY <1>3 DEF UpdateStatus, TypeInv, TypeOK, ApplicationRow, Made
    <2> QED
      BY <2>1 DEF OneApplication
  <1> QED
    BY <1>1, <1>2, <1>3, ApplicationStep

\* However many requests of a citizen found no application, one is made: the unique index
\* asks again where the service does not.
THEOREM OneApplicationHolds == Spec => []OneApplication
  <1>1. Init => OneApplication
    BY DEF Init, OneApplication, Made, NoApplication
  <1> QED
    BY <1>1, TypeInit, TypeStep, OneApplicationStep, PTL DEF Spec

LEMMA DecisionKept ==
  ASSUME TypeInv, [Next]_vars, NEW a \in Application,
         application[a].status \in {"approved", "rejected"}
  PROVE  application'[a].status \in {"approved", "rejected"}
  <1>1. ASSUME NEW r \in Request, NEW b \in Application, InsertApplication(r, b)
        PROVE  application'[a].status \in {"approved", "rejected"}
    BY <1>1 DEF InsertApplication, Made, TypeInv, TypeOK
  <1>2. ASSUME NEW b \in Application, NEW s \in Decisions, UpdateStatus(b, s)
        PROVE  application'[a].status \in {"approved", "rejected"}
    BY <1>2 DEF UpdateStatus, Decisions, TypeInv, TypeOK, ApplicationRow
  <1> QED
    BY <1>1, <1>2, ApplicationStep

\* A decision is never withdrawn: the status that would is refused by the schema.
THEOREM DecisionsStayHolds == Spec => DecisionsStay
  <1>1. ASSUME TypeInv, [Next]_vars
        PROVE  [\A a \in Application :
                   application[a].status \in {"approved", "rejected"}
                     => application'[a].status \in {"approved", "rejected"}]_vars
    BY <1>1, DecisionKept
  <1> QED
    BY <1>1, TypeInit, TypeStep, PTL DEF Spec, DecisionsStay

-----------------------------------------------------------------------------
(* Files.  A file a document refers to, or is about to, is kept: it was    *)
(* stored and is destroyed only on request.  A file that is being uploaded *)
(* is held by its request, or was let go of by one that failed.            *)

Kept(f) == \/ upload[f] = "stored" /\ f \in object
           \/ upload[f] = "destroyed"

HeldFile(f) == f \in loose \/ \E r \in Request : f \in task[r].files

FileInv ==
    \A f \in File : /\ upload[f] = "stored" => f \in object
                    /\ upload[f] = "going" => HeldFile(f)

\* What a request has sent is kept from the moment all of it is uploaded.
Ready(t) ==
    /\ t.pc = "idle" => t.files = {}
    /\ t.pc = "upload" => t.then \in {"answer", "create", "update", "scheme"}
    /\ t.pc \notin {"idle", "upload"} => \A f \in t.files : Kept(f)

DocumentInv ==
    /\ \A d \in Publication : ~Exists(d) => publication[d].images = {}
    /\ \A a \in Application : ~Made(a) => application[a].documents = {}

StorageInv ==
    /\ StorageExplained
    /\ FileInv
    /\ DocumentInv
    /\ \A r \in Request : Ready(task[r])

StorageOK ==
    \A f \in File : /\ Referred(f) => Kept(f) \/ f \in named
                    /\ f \in object => Referred(f) \/ HeldFile(f)

LEMMA StorageOf == StorageExplained <=> StorageOK
  BY DEF StorageExplained, StorageOK, Kept, HeldFile

\* A step that destroys nothing but on request.
KeepsFiles == \A f \in File : Kept(f) => Kept(f)'

LEMMA ReadyKept ==
  ASSUME KeepsFiles, NEW t \in Task, Ready(t)
  PROVE  Ready(t)'
  BY DEF KeepsFiles, Ready, Task

\* A step that leaves the documents alone, and lets go of no file but to leave it loose.
LEMMA DocumentsAlone ==
  ASSUME TypeInv, StorageInv, UNCHANGED <<publication, application, named>>, KeepsFiles, FileInv',
         \A f \in File : HeldFile(f) => HeldFile(f)',
         \A f \in object' : f \in object \/ upload[f] = "going",
         object' \subseteq File,
         \A r \in Request : Ready(task[r])'
  PROVE  StorageInv'
  <1>1. \A f \in File : Referred(f)' <=> Referred(f)
    BY DEF Referred
  <1>2. StorageExplained'
    <2>1. ASSUME NEW f \in File, Referred(f)'  PROVE Kept(f)' \/ f \in named'
      BY <1>1, <2>1, StorageOf DEF StorageOK, StorageInv, KeepsFiles
    <2>2. ASSUME NEW f \in File, f \in object'  PROVE Referred(f)' \/ HeldFile(f)'
      <3>1. CASE f \in object
        BY <1>1, <3>1, StorageOf DEF StorageOK, StorageInv
      <3>2. CASE upload[f] = "going"
        BY <3>2 DEF StorageInv, FileInv
      <3> QED
        BY <2>2, <3>1, <3>2
    <2>3. StorageOK'
      BY <2>1, <2>2 DEF StorageOK
    <2> QED
      BY <2>3, StorageOf, PTL
  <1>3. DocumentInv'
    BY DEF StorageInv, DocumentInv, Exists, Made
  <1> QED
    BY <1>2, <1>3 DEF StorageInv

\* A request goes on, or ends and leaves its files loose.
LEMMA RunAlone ==
  ASSUME TypeInv, StorageInv, NEW r \in Request, NEW t, Run(r, t), Ready(t),
         UNCHANGED <<upload, object, publication, application, named>>,
         loose \subseteq loose',
         \A f \in task[r].files : f \in loose' \/ f \in t.files
  PROVE  StorageInv'
  <1>1. KeepsFiles
    BY DEF KeepsFiles, Kept
  <1>2. /\ \A s \in Request : s # r => task'[s] = task[s]
        /\ task'[r] = t
    BY DEF Run, TypeInv, TypeOK
  <1>3. \A f \in File : HeldFile(f) => HeldFile(f)'
    BY <1>2 DEF HeldFile
  <1>4. FileInv'
    BY <1>3 DEF FileInv, StorageInv
  <1>5. \A s \in Request : Ready(task[s])'
    BY <1>2 DEF Ready, Kept, StorageInv
  <1> QED
    BY <1>1, <1>3, <1>4, <1>5, DocumentsAlone DEF TypeInv, TypeOK

LEMMA IdleReady == Ready(Idle)
  BY DEF Ready, Idle

LEMMA FilesStep ==
  ASSUME TypeInv, StorageInv, NEW f \in File, StoreFile(f) \/ FailFile(f) \/ DeleteImage(f)
  PROVE  StorageInv'
  <1>1. /\ \A g \in File : g # f => /\ upload'[g] = upload[g]
                                    /\ g \in object' <=> g \in object
        /\ UNCHANGED <<publication, application, task, loose, named>>
    BY DEF StoreFile, FailFile, DeleteImage, TypeInv, TypeOK
  <1>2. /\ upload[f] = "going" \/ (upload[f] = "stored" /\ upload'[f] = "destroyed")
        /\ upload'[f] \in {"stored", "failed", "destroyed"}
        /\ upload'[f] = "stored" => f \in object'
        /\ f \in object' => f \in object \/ upload[f] = "going"
        /\ object' \subseteq File
    BY DEF StoreFile, FailFile, DeleteImage, TypeInv, TypeOK
  <1>3. KeepsFiles
    BY <1>1, <1>2 DEF KeepsFiles, Kept
  <1>4. \A g \in File : HeldFile(g) => HeldFile(g)'
    BY <1>1 DEF HeldFile
  <1>5. FileInv'
    BY <1>1, <1>2, <1>4 DEF FileInv, StorageInv
  <1>6. \A r \in Request : Ready(task[r])'
    BY <1>1, <1>3, ReadyKept DEF StorageInv, TypeInv, TypeOK
  <1>7. \A g \in object' : g \in object \/ upload[g] = "going"
    BY <1>1, <1>2
  <1> QED
    BY <1>1, <1>2, <1>3, <1>4, <1>5, <1>6, <1>7, DocumentsAlone

LEMMA BeginStep ==
  ASSUME TypeInv, StorageInv, NEW r \in Request, NEW t \in Task, Begin(r, t),
         t.then \in {"answer", "create", "update", "scheme"}
  PROVE  StorageInv'
  <1> DEFINE u == [t EXCEPT !.pc = IF t.files = {} THEN t.then ELSE "upload"]
  <1>1. /\ \A s \in Request : s # r => task'[s] = task[s]
        /\ task'[r] = u
    BY DEF Begin, Run, TypeInv, TypeOK
  <1>2. /\ u.files = t.files /\ u.then = t.then
        /\ u.pc = IF t.files = {} THEN t.then ELSE "upload"
    BY DEF Task
  <1> HIDE DEF u
  <1>3. \A f \in File : IF f \in t.files THEN upload[f] = "unused" /\ upload'[f] = "going"
                        ELSE upload'[f] = upload[f]
    BY DEF Begin, TypeInv, TypeOK
  <1>4. UNCHANGED <<object, publication, application, loose, named>>
    BY DEF Begin
  <1>5. KeepsFiles
    BY <1>3, <1>4 DEF KeepsFiles, Kept
  <1>6. task[r].files = {}
    BY DEF Begin, At, StorageInv, Ready
  <1>7. \A f \in File : HeldFile(f) => HeldFile(f)'
    BY <1>1, <1>4, <1>6 DEF HeldFile
  <1>8. FileInv'
    BY <1>1, <1>2, <1>3, <1>4, <1>7 DEF FileInv, StorageInv, HeldFile
  <1>9. Ready(task[r])'
    BY <1>1, <1>2 DEF Ready
  <1>10. \A s \in Request : s # r => Ready(task[s])'
    BY <1>1, <1>5, ReadyKept DEF StorageInv, TypeInv, TypeOK
  <1> QED
    BY <1>4, <1>5, <1>7, <1>8, <1>9, <1>10, DocumentsAlone DEF TypeInv, TypeOK

LEMMA BeginsStep ==
  ASSUME TypeInv, StorageInv, NEW r \in Request,
         BeginUpload(r) \/ BeginCreate(r) \/ BeginUpdate(r) \/ BeginApply(r)
  PROVE  StorageInv'
  <1>1. CASE BeginUpload(r) \/ BeginCreate(r)
    <2>1. PICK F \in SUBSET File, l \in {"answer", "create"} :
             Begin(r, [Idle EXCEPT !.then = l, !.files = F])
      BY <1>1 DEF BeginUpload, BeginCreate
    <2> DEFINE t == [Idle EXCEPT !.then = l, !.files = F]
    <2>2. t \in Task /\ t.then = l
      BY IdleTyped DEF TypedTask, Task, Pc
    <2>3. Begin(r, t)
      BY <2>1
    <2> HIDE DEF t
    <2> QED
      BY <2>2, <2>3, BeginStep
  <1>2. CASE BeginUpdate(r)
    <2>1. PICK d \in Publication, F \in SUBSET File :
             Begin(r, [Idle EXCEPT !.then = "update", !.files = F, !.publication = d])
      BY <1>2 DEF BeginUpdate
    <2> DEFINE t == [Idle EXCEPT !.then = "update", !.files = F, !.publication = d]
    <2>2. t \in Task /\ t.then = "update"
      BY IdleTyped DEF TypedTask, Task, Pc
    <2>3. Begin(r, t)
      BY <2>1
    <2> HIDE DEF t
    <2> QED
      BY <2>2, <2>3, BeginStep
  <1>3. CASE BeginApply(r)
    <2>1. PICK d \in Publication, F \in SUBSET File, c \in Citizen :
             Begin(r, [Idle EXCEPT !.then = "scheme", !.files = F, !.publication = d,
                                   !.citizen = c])
      BY <1>3 DEF BeginApply
    <2> DEFINE t == [Idle EXCEPT !.then = "scheme", !.files = F, !.publication = d,
                                 !.citizen = c]
    <2>2. t \in Task /\ t.then = "scheme"
      BY IdleTyped DEF TypedTask, Task, Pc
    <2>3. Begin(r, t)
      BY <2>1
    <2> HIDE DEF t
    <2> QED
      BY <2>2, <2>3, BeginStep
  <1> QED
    BY <1>1, <1>2, <1>3

\* The death of a process: what it was uploading may have reached the storage, and all its
\* requests had sent is loose.
LEMMA DieStep ==
  ASSUME TypeInv, StorageInv, Die
  PROVE  StorageInv'
  <1>1. /\ \A f \in File : upload'[f] = IF upload[f] = "going" THEN "failed" ELSE upload[f]
        /\ \A f \in object' : f \in object \/ upload[f] = "going"
        /\ object \subseteq object'
        /\ object' \subseteq File
        /\ UNCHANGED <<publication, application, named>>
    BY DEF Die, TypeInv, TypeOK
  <1>2. /\ \A r \in Request : task'[r] = Idle
        /\ \A f \in File : HeldFile(f) => f \in loose'
    BY DEF Die, HeldFile
  <1>3. KeepsFiles
    BY <1>1 DEF KeepsFiles, Kept
  <1>4. \A f \in File : HeldFile(f) => HeldFile(f)'
    BY <1>2 DEF HeldFile
  <1>5. FileInv'
    BY <1>1 DEF FileInv, StorageInv
  <1>6. \A r \in Request : Ready(task[r])'
    BY <1>2, IdleTyped DEF Ready
  <1> QED
    BY <1>1, <1>3, <1>4, <1>5, <1>6, DocumentsAlone

\* The files refused are neither stored nor referred to.
LEMMA RefuseStep ==
  ASSUME TypeInv, StorageInv, NEW r \in Request, NEW F \in SUBSET File, RefuseFiles(r, F)
  PROVE  StorageInv'
  <1>1. /\ \A f \in File : IF f \in F THEN upload[f] = "unused" /\ upload'[f] = "failed"
                           ELSE upload'[f] = upload[f]
        /\ UNCHANGED <<object, publication, application, task, loose, named>>
    BY DEF RefuseFiles, TypeInv, TypeOK
  <1>2. KeepsFiles
    BY <1>1 DEF KeepsFiles, Kept
  <1>3. \A f \in File : HeldFile(f) => HeldFile(f)'
    BY <1>1 DEF HeldFile
  <1>4. FileInv'
    BY <1>1, <1>3 DEF FileInv, StorageInv
  <1>5. \A s \in Request : Ready(task[s])'
    BY <1>1, <1>2, ReadyKept DEF StorageInv, TypeInv, TypeOK
  <1> QED
    BY <1>1, <1>2, <1>3, <1>4, <1>5, DocumentsAlone DEF TypeInv, TypeOK

-----------------------------------------------------------------------------
(* Writing a document: the files of the request pass to the document.      *)

\* A request that ends having written a document.
LEMMA WriteStep ==
  ASSUME TypeInv, StorageInv, NEW r \in Request, Finish(r), UNCHANGED <<upload, object>>,
         loose \subseteq loose',
         task[r].pc \notin {"idle", "upload"},
         named \subseteq named',
         \A f \in task[r].files : Referred(f)',
         \A f \in File : Referred(f) /\ f \in object => Referred(f)' \/ f \in loose',
         \A f \in File : Referred(f)' => \/ Referred(f)
                                         \/ f \in task[r].files \cup Nameable
                                         \/ f \in named',
         Objectless({f \in File : Referred(f)' /\ ~Referred(f)}) \subseteq named',
         DocumentInv'
  PROVE  StorageInv'
  <1>1. KeepsFiles
    BY DEF KeepsFiles, Kept
  <1>2. /\ \A s \in Request : s # r => task'[s] = task[s]
        /\ task'[r] = Idle
    BY DEF Finish, Run, TypeInv, TypeOK
  <1>3. \A f \in task[r].files : Kept(f)
    BY DEF StorageInv, Ready
  <1>4. ASSUME NEW f \in File, Referred(f)'  PROVE Kept(f)' \/ f \in named'
    <2>1. CASE Referred(f)
      BY <1>1, <2>1, StorageOf DEF StorageOK, StorageInv, KeepsFiles
    <2>2. CASE f \in task[r].files
      BY <1>1, <1>3, <2>2 DEF KeepsFiles
    <2>3. CASE ~Referred(f) /\ f \in Nameable
      <3>1. CASE upload[f] = "failed"
        BY <1>4, <2>3, <3>1 DEF Objectless
      <3>2. CASE upload[f] \in {"stored", "destroyed"}
        BY <1>1, <3>2 DEF KeepsFiles, Kept, StorageInv, FileInv
      <3> QED
        BY <2>3, <3>1, <3>2 DEF Nameable
    <2> QED
      BY <1>4, <2>1, <2>2, <2>3
  <1>5. ASSUME NEW f \in File, HeldFile(f)  PROVE HeldFile(f)' \/ f \in task[r].files
    BY <1>2, <1>5 DEF HeldFile
  <1>6. ASSUME NEW f \in File, f \in object'  PROVE Referred(f)' \/ HeldFile(f)'
    <2>1. CASE Referred(f)
      BY <1>6, <2>1 DEF HeldFile
    <2>2. CASE HeldFile(f)
      BY <1>5, <2>2 DEF HeldFile
    <2> QED
      BY <1>6, <2>1, <2>2, StorageOf DEF StorageOK, StorageInv
  <1>7. StorageExplained'
    <2>1. StorageOK'
      BY <1>4, <1>6 DEF StorageOK
    <2> QED
      BY <2>1, StorageOf, PTL
  <1>8. FileInv'
    <2>1. ASSUME NEW f \in File, upload'[f] = "going"  PROVE HeldFile(f)'
      BY <1>3, <1>5, <2>1 DEF StorageInv, FileInv, Kept
    <2> QED
      BY <2>1 DEF StorageInv, FileInv
  <1>9. \A s \in Request : Ready(task[s])'
    BY <1>1, <1>2, IdleTyped, ReadyKept DEF Ready, StorageInv, TypeInv, TypeOK
  <1> QED
    BY <1>7, <1>8, <1>9 DEF StorageInv

LEMMA CreateStep ==
  ASSUME TypeInv, StorageInv, NEW r \in Request, NEW d \in Publication, NEW k \in Kind,
         CreatePublication(r, d, k)
  PROVE  StorageInv'
  <1>0. PICK active \in BOOLEAN, images \in SUBSET File :
           /\ task[r].files \subseteq images
           /\ images \subseteq task[r].files \cup Nameable
           /\ publication' = [publication EXCEPT
                  ![d] = [kind |-> k, isActive |-> active, images |-> images]]
           /\ named' = named \cup Objectless(images)
    BY CreateWrites
  <1>1. /\ ~Exists(d)
        /\ publication'[d].images = images
        /\ publication'[d].kind = k
        /\ \A e \in Publication : e # d => publication'[e] = publication[e]
        /\ UNCHANGED <<upload, object, application, loose>>
        /\ Finish(r)
        /\ task[r].pc = "create"
    BY <1>0 DEF CreatePublication, TypeInv, TypeOK, At
  <1>2. publication[d].images = {}
    BY <1>1 DEF StorageInv, DocumentInv
  <1>3. \A f \in File : Referred(f)' <=> Referred(f) \/ f \in images
    BY <1>1, <1>2 DEF Referred
  <1>4. task[r].files \subseteq File
    BY DEF TypeInv, TypeOK, Task
  <1>5. DocumentInv'
    BY <1>1 DEF StorageInv, DocumentInv, Exists, Made, Kind
  <1>6. Objectless({f \in File : Referred(f)' /\ ~Referred(f)}) \subseteq named'
    BY <1>0, <1>3 DEF Objectless
  <1> QED
    BY <1>0, <1>1, <1>3, <1>4, <1>5, <1>6, WriteStep

LEMMA UpdateStep ==
  ASSUME TypeInv, StorageInv, NEW r \in Request, NEW k \in Kind, UpdatePublication(r, k)
  PROVE  StorageInv'
  <1> DEFINE d == task[r].publication
             has == publication[d].images
  <1>1. /\ d \in Publication
        /\ task[r].pc = "update"
        /\ publication[d].kind = k
        /\ Finish(r)
        /\ UNCHANGED <<upload, object, application>>
    BY DEF UpdatePublication, At, TypeInv, TypedTask, Goal
  <1>2. PICK active \in BOOLEAN, images \in SUBSET File :
           /\ task[r].files \subseteq images
           /\ images \subseteq has \cup Nameable
           /\ publication' = [publication EXCEPT ![d].isActive = active, ![d].images = images]
           /\ loose' = loose \cup ((has \ images) \cap object)
           /\ named' = named \cup Objectless(images)
    BY <1>1, UpdateWrites
  <1>3. /\ publication'[d].images = images
        /\ publication'[d].kind = publication[d].kind
        /\ \A e \in Publication : e # d => publication'[e] = publication[e]
    BY <1>1, <1>2 DEF TypeInv, TypeOK, PublicationRow
  <1>4. \A f \in File : Referred(f) /\ f \in object => Referred(f)' \/ f \in loose'
    BY <1>1, <1>2, <1>3 DEF Referred
  <1>5. \A f \in File : Referred(f)' => Referred(f) \/ f \in images
    BY <1>1, <1>3 DEF Referred
  <1>6. \A f \in has : Referred(f)
    BY <1>1 DEF Referred
  <1>7. \A f \in images : Referred(f)'
    BY <1>1, <1>3 DEF Referred
  <1>8. DocumentInv'
    BY <1>1, <1>3 DEF StorageInv, DocumentInv, Exists, Made, Kind
  <1>9. Objectless({f \in File : Referred(f)' /\ ~Referred(f)}) \subseteq named'
    BY <1>2, <1>5 DEF Objectless
  <1>10. \A f \in File : Referred(f)' => Referred(f) \/ f \in Nameable
    BY <1>2, <1>5, <1>6
  <1> HIDE DEF d, has
  <1> QED
    BY <1>1, <1>2, <1>4, <1>7, <1>8, <1>9, <1>10, WriteStep

LEMMA InsertStep ==
  ASSUME TypeInv, StorageInv, NEW r \in Request, NEW a \in Application, InsertApplication(r, a)
  PROVE  StorageInv'
  <1>1. /\ ~Made(a)
        /\ application'[a].documents = task[r].files
        /\ application'[a].status = "applied"
        /\ \A b \in Application : b # a => application'[b] = application[b]
        /\ UNCHANGED <<upload, object, publication, loose, named>>
        /\ Finish(r)
        /\ task[r].pc = "insert"
    BY DEF InsertApplication, TypeInv, TypeOK, At
  <1>2. application[a].documents = {}
    BY <1>1 DEF StorageInv, DocumentInv
  <1>3. \A f \in File : Referred(f)' <=> Referred(f) \/ f \in task[r].files
    BY <1>1, <1>2 DEF Referred
  <1>4. task[r].files \subseteq File
    BY DEF TypeInv, TypeOK, Task
  <1>5. DocumentInv'
    BY <1>1 DEF StorageInv, DocumentInv, Exists, Made
  <1>6. Objectless({f \in File : Referred(f)' /\ ~Referred(f)}) \subseteq named'
    <2>1. \A f \in task[r].files : upload[f] # "failed"
      BY <1>1 DEF StorageInv, Ready, Kept
    <2> QED
      BY <1>3, <2>1 DEF Objectless
  <1> QED
    BY <1>1, <1>3, <1>4, <1>5, <1>6, WriteStep

\* Neither a deactivation nor a decision touches a file.
LEMMA FieldStep ==
  ASSUME TypeInv, StorageInv,
         \/ \E d \in Publication : Deactivate(d)
         \/ \E a \in Application : \E s \in Decisions : UpdateStatus(a, s)
  PROVE  StorageInv'
  <1>1. /\ \A d \in Publication : /\ publication'[d].images = publication[d].images
                                  /\ publication'[d].kind = publication[d].kind
        /\ \A a \in Application : /\ application'[a].documents = application[a].documents
                                  /\ Made(a) => Made(a)'
        /\ UNCHANGED <<upload, object, task, loose, named>>
    BY DEF Deactivate, UpdateStatus, Decisions, Made, TypeInv, TypeOK, PublicationRow,
           ApplicationRow
  <1>2. \A f \in File : Referred(f)' <=> Referred(f)
    BY <1>1 DEF Referred
  <1>3. StorageExplained'
    BY <1>1, <1>2 DEF StorageInv, StorageExplained
  <1>4. DocumentInv'
    BY <1>1 DEF StorageInv, DocumentInv, Exists
  <1>5. FileInv' /\ \A r \in Request : Ready(task[r])'
    BY <1>1 DEF StorageInv, FileInv, HeldFile, Ready, Kept
  <1> QED
    BY <1>3, <1>4, <1>5 DEF StorageInv

LEMMA StorageInit == Init => StorageInv
  <1> SUFFICES ASSUME Init PROVE StorageInv
    OBVIOUS
  <1>1. \A f \in File : ~Referred(f)
    BY DEF Init, Referred, NoPublication, NoApplication
  <1>2. DocumentInv
    BY DEF Init, DocumentInv, NoPublication, NoApplication
  <1>3. FileInv
    BY DEF Init, FileInv
  <1>4. \A r \in Request : Ready(task[r])
    BY IdleReady DEF Init
  <1>5. StorageExplained
    BY <1>1 DEF Init, StorageExplained
  <1> QED
    BY <1>2, <1>3, <1>4, <1>5 DEF StorageInv

LEMMA StorageStep ==
  ASSUME TypeInv, StorageInv, [Next]_vars
  PROVE  StorageInv'
  <1>1. ASSUME NEW r \in Request, Uploaded(r)  PROVE StorageInv'
    <2> DEFINE t == [task[r] EXCEPT !.pc = task[r].then]
    <2>1. /\ t.pc = task[r].then /\ t.files = task[r].files
          /\ t.then = task[r].then
      BY DEF TypeInv, TypeOK, Task
    <2>2. \A f \in task[r].files : Kept(f)
      BY <1>1 DEF Uploaded, StorageInv, FileInv, Kept, TypeInv, TypeOK, Task
    <2>3. Run(r, t)
      BY <1>1 DEF Uploaded, Goto
    <2> HIDE DEF t
    <2>4. Ready(t)
      BY <1>1, <2>1, <2>2 DEF Ready, StorageInv, Uploaded, At
    <2> QED
      BY <1>1, <2>1, <2>3, <2>4, RunAlone DEF Uploaded
  <1>2. ASSUME NEW r \in Request, FailRequest(r)  PROVE StorageInv'
    BY <1>2, IdleReady, RunAlone DEF FailRequest, Finish
  <1>3. ASSUME NEW r \in Request, NEW l \in {"existing", "insert"}, Goto(r, l),
               task[r].pc \notin {"idle", "upload"},
               UNCHANGED <<upload, object, publication, application, loose, named>>
        PROVE  StorageInv'
    <2> DEFINE t == [task[r] EXCEPT !.pc = l]
    <2>1. /\ t.pc = l /\ t.files = task[r].files
          /\ t.then = task[r].then
      BY DEF TypeInv, TypeOK, Task
    <2>2. Run(r, t)
      BY <1>3 DEF Goto
    <2> HIDE DEF t
    <2>3. Ready(t)
      BY <1>3, <2>1 DEF Ready, StorageInv
    <2> QED
      BY <1>3, <2>1, <2>2, <2>3, RunAlone
  <1>4. ASSUME NEW r \in Request, ReadScheme(r) \/ CheckExisting(r)  PROVE StorageInv'
    BY <1>3, <1>4 DEF ReadScheme, CheckExisting, At
  <1>5. CASE UNCHANGED vars
    BY <1>5 DEF vars, StorageInv, StorageExplained, Referred, FileInv, HeldFile, DocumentInv,
                Exists, Made, Ready, Kept
  <1> QED
    BY <1>1, <1>2, <1>4, <1>5, BeginsStep, FilesStep, CreateStep, UpdateStep, InsertStep,
       FieldStep, DieStep, RefuseStep
    DEF Next, RequestStep, UploadFails, WriteFails, AnswerUpload, CreateScheme, CreateEvent,
        CreateAnnouncement, UpdateScheme, UpdateEvent, UpdateAnnouncement, Kind

\* Database and storage differ only where a request is under way or is known to have left
\* something, for any number of requests, files and documents.
THEOREM StorageExplainedHolds == Spec => []StorageExplained
  <1>1. StorageInv => StorageExplained
    BY DEF StorageInv
  <1> QED
    BY <1>1, TypeInit, TypeStep, StorageInit, StorageStep, PTL DEF Spec

-----------------------------------------------------------------------------
(* Copies on the disk *)

\* A request that begins has an upload for every copy it brings.
LEMMA BeginsCopies ==
  ASSUME TypeInv, NoCopyForgotten, NEW r \in Request,
         BeginUpload(r) \/ BeginCreate(r) \/ BeginUpdate(r) \/ BeginApply(r)
  PROVE  NoCopyForgotten'
  <1>1. PICK t : Begin(r, t)
    BY DEF BeginUpload, BeginCreate, BeginUpdate, BeginApply
  <1> QED
    BY <1>1 DEF Begin, NoCopyForgotten, TypeInv, TypeOK

LEMMA CopiesStep ==
  ASSUME TypeInv, NoCopyForgotten, [Next]_vars
  PROVE  NoCopyForgotten'
  <1> USE DEF NoCopyForgotten, TypeInv, TypeOK
  <1>2. ASSUME NEW r \in Request,
               BeginUpload(r) \/ BeginCreate(r) \/ BeginUpdate(r) \/ BeginApply(r)
        PROVE  NoCopyForgotten'
    BY <1>2, BeginsCopies
  <1>3. ASSUME NEW f \in File, StoreFile(f) \/ FailFile(f) \/ DeleteImage(f)
        PROVE  NoCopyForgotten'
    BY <1>3 DEF StoreFile, FailFile, DeleteImage
  <1>4. ASSUME NEW r \in Request, NEW F \in SUBSET File, RefuseFiles(r, F)
        PROVE  NoCopyForgotten'
    BY <1>4 DEF RefuseFiles
  <1>5. CASE Die
    BY <1>5 DEF Die
  <1>6. CASE UNCHANGED <<upload, temp, left>>
    BY <1>6
  <1>7. ASSUME NEW r \in Request, RequestStep(r)  PROVE UNCHANGED <<upload, temp, left>>
    BY <1>7 DEF RequestStep, Uploaded, UploadFails, WriteFails, AnswerUpload, FailRequest,
                CreateScheme, CreateEvent, CreateAnnouncement, CreatePublication, UpdateScheme,
                UpdateEvent, UpdateAnnouncement, UpdatePublication, ReadScheme, CheckExisting,
                InsertApplication
  <1>8. ASSUME \/ \E d \in Publication : Deactivate(d)
               \/ \E a \in Application : \E s \in Decisions : UpdateStatus(a, s)
               \/ UNCHANGED vars
        PROVE  UNCHANGED <<upload, temp, left>>
    BY <1>8 DEF Deactivate, UpdateStatus, vars
  <1> QED
    BY <1>2, <1>3, <1>4, <1>5, <1>6, <1>7, <1>8 DEF Next

\* Whatever requests overlap, fail and are answered, a copy on the disk belongs to an upload that
\* still goes on, or was left by a refusal or by the death of its process.
THEOREM NoCopyForgottenHolds == Spec => []NoCopyForgotten
  <1>1. Init => NoCopyForgotten
    BY DEF Init, NoCopyForgotten
  <1> QED
    BY <1>1, TypeInit, TypeStep, CopiesStep, PTL DEF Spec

=============================================================================
