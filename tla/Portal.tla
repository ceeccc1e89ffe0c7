------------------------------- MODULE Portal -------------------------------
(***************************************************************************)
(* What the MLA's office publishes and what citizens send in with files:   *)
(* schemes, events and announcements with their images, applications for   *)
(* a scheme with their documents, and the uploads of all of them.  A       *)
(* request with files uploads them first, all at a time, and writes its    *)
(* document last, in a second system that knows nothing of the first.      *)
(* The three kinds of publication have the same operations; schemes can be *)
(* applied for.                                                            *)
(***************************************************************************)
EXTENDS Integers, FiniteSets

CONSTANTS
    Request,        \* the slots for requests in flight
    File,           \* the files that are ever sent; each names its object in the storage
    Publication,    \* identities of publications; bounds how many are made
    Application,    \* identities of applications; bounds how many are made
    Citizen,
    MaxFiles,       \* files of one request
    None

ASSUME PortalAssumption ==
    /\ MaxFiles \in Nat
    /\ None \notin Publication \cup Citizen

VARIABLES
    upload,         \* upload[f]: how far uploadImage got with f
    temp,           \* the files that have copies on the disk of the server
    object,         \* the files whose object is in the storage
    publication,    \* publication[d]: the document
    application,    \* application[a]: the document
    task,           \* task[r]: the operation r has issued and what it uses after it
    loose,          \* ghost: the files whose object no document has to refer to
    named,          \* ghost: the files a client named as images that had no object of that name
    left            \* ghost: the files whose copies stay on the disk

vars == <<upload, temp, object, publication, application, task, loose, named, left>>

Upload == {"unused", "going", "stored", "failed", "destroyed"}

Kind == {"scheme", "event", "announcement"}

PublicationRow == [kind : Kind \cup {"none"}, isActive : BOOLEAN, images : SUBSET File]
NoPublication == [kind |-> "none", isActive |-> FALSE, images |-> {}]

ApplicationRow == [status    : {"none", "applied", "approved", "rejected"},
                   scheme    : Publication \cup {None},
                   citizen   : Citizen \cup {None},
                   documents : SUBSET File]
NoApplication == [status |-> "none", scheme |-> None, citizen |-> None, documents |-> {}]

\* What a request is for is what it goes on to when its files are uploaded.
Pc == {"idle", "upload", "create", "update", "scheme", "existing", "insert", "answer"}

Task == [pc : Pc, then : Pc, files : SUBSET File,
         publication : Publication \cup {None}, citizen : Citizen \cup {None}]
Idle == [pc |-> "idle", then |-> "idle", files |-> {}, publication |-> None, citizen |-> None]

Init ==
    /\ upload = [f \in File |-> "unused"]
    /\ temp = {}
    /\ object = {}
    /\ publication = [d \in Publication |-> NoPublication]
    /\ application = [a \in Application |-> NoApplication]
    /\ task = [r \in Request |-> Idle]
    /\ loose = {}
    /\ named = {}
    /\ left = {}

At(r, l) == task[r].pc = l
Run(r, t) == task' = [task EXCEPT ![r] = t]
Goto(r, l) == Run(r, [task[r] EXCEPT !.pc = l])
Finish(r) == Run(r, Idle)

Exists(d) == publication[d].kind # "none"
Made(a) == application[a].status # "none"

Referred(f) ==
    \/ \E d \in Publication : f \in publication[d].images
    \/ \E a \in Application : f \in application[a].documents

-----------------------------------------------------------------------------
(* Uploads *)

\* multer has written the files of a request to the disk, the validators let it pass, and
\* uploadMultiple starts an upload of each.
Begin(r, t) ==
    /\ At(r, "idle")
    /\ Cardinality(t.files) <= MaxFiles
    /\ \A f \in t.files : upload[f] = "unused"
    /\ Run(r, [t EXCEPT !.pc = IF t.files = {} THEN t.then ELSE "upload"])
    /\ upload' = [f \in File |-> IF f \in t.files THEN "going" ELSE upload[f]]
    /\ temp' = temp \cup t.files
    /\ UNCHANGED <<object, publication, application, loose, named, left>>

\* The validators, which run after multer, refuse: nobody removes the files.
RefuseFiles(r, F) ==
    /\ At(r, "idle")
    /\ F # {}
    /\ Cardinality(F) <= MaxFiles
    /\ \A f \in F : upload[f] = "unused"
    /\ upload' = [f \in File |-> IF f \in F THEN "failed" ELSE upload[f]]
    /\ temp' = temp \cup F
    /\ left' = left \cup F
    /\ UNCHANGED <<object, publication, application, task, loose, named>>

\* An upload ends, and with it the copies on the disk, which can be removed.
StoreFile(f) ==
    /\ upload[f] = "going"
    /\ upload' = [upload EXCEPT ![f] = "stored"]
    /\ object' = object \cup {f}
    /\ temp' = temp \ {f}
    /\ UNCHANGED <<publication, application, task, loose, named, left>>

\* Mutant: the copies are removed when the upload succeeds.
FailFileInPlace(f) ==
    /\ upload[f] = "going"
    /\ upload' = [upload EXCEPT ![f] = "failed"]
    /\ object' \in {object, object \cup {f}}
    /\ UNCHANGED <<temp, publication, application, task, loose, named, left>>

\* It fails in the conversion, in the storage, or because the answer of the storage is lost.
FailFile(f) ==
    /\ upload[f] = "going"
    /\ upload' = [upload EXCEPT ![f] = "failed"]
    /\ object' \in {object, object \cup {f}}
    /\ temp' = temp \ {f}
    /\ UNCHANGED <<publication, application, task, loose, named, left>>

\* Promise.all resolves when each is stored ...
Uploaded(r) ==
    /\ At(r, "upload")
    /\ \A f \in task[r].files : upload[f] = "stored"
    /\ Goto(r, task[r].then)
    /\ UNCHANGED <<upload, temp, object, publication, application, loose, named, left>>

\* The request fails, here and at any later point: what it has stored stays in the storage.
FailRequest(r) ==
    /\ Finish(r)
    /\ loose' = loose \cup task[r].files
    /\ UNCHANGED <<upload, temp, object, publication, application, named, left>>

\* ... and rejects as soon as one has failed, while the others go on.
UploadFails(r) ==
    /\ At(r, "upload")
    /\ \E f \in task[r].files : upload[f] = "failed"
    /\ FailRequest(r)

\* A write is refused by the schema, by a check before it or by the unique index, or fails.
WriteFails(r) ==
    /\ task[r].pc \in {"create", "update", "scheme", "existing", "insert"}
    /\ FailRequest(r)

\* The two upload endpoints answer with the URLs; what the client does with them is open.
AnswerUpload(r) ==
    /\ At(r, "answer")
    /\ FailRequest(r)

\* deleteImage asks whether a complaint is the user's.  That the object belongs to it can only
\* be asked of objects stored with an owner, which those uploaded with documents are not; no
\* document that refers to the object is changed.
DeleteImage(f) ==
    /\ upload[f] = "stored"
    /\ f \in object
    /\ object' = object \ {f}
    /\ upload' = [upload EXCEPT ![f] = "destroyed"]
    /\ UNCHANGED <<temp, publication, application, task, loose, named, left>>

-----------------------------------------------------------------------------
(* Publications *)

\* What a client can send as images: names of objects that were stored, of any document or of
\* none, and names it made up.  The storage gives an object its name when it stores it, so nobody
\* knows that of an upload to come; the name of one that failed is as good as made up.
Nameable == {f \in File : upload[f] \in {"stored", "destroyed", "failed"}}

Objectless(images) == {f \in images : upload[f] = "failed"}

\* Mutant: the files uploaded are not among the images.
CreatePublicationBare(r, d, k) ==
    /\ At(r, "create")
    /\ ~Exists(d)
    /\ publication' = [publication EXCEPT
           ![d] = [kind |-> k, isActive |-> TRUE, images |-> {}]]
    /\ Finish(r)
    /\ UNCHANGED <<upload, temp, object, application, loose, named, left>>

\* The fields of the body are stored as they come.  Its images are those the client
\* sends, whatever they name; those just uploaded take their place.
CreatePublication(r, d, k) ==
    /\ At(r, "create")
    /\ ~Exists(d)
    /\ \E active \in BOOLEAN, sent \in SUBSET Nameable :
          LET images == IF task[r].files = {} THEN sent ELSE task[r].files
          IN  /\ publication' = [publication EXCEPT
                     ![d] = [kind |-> k, isActive |-> active, images |-> images]]
              /\ named' = named \cup Objectless(images)
    /\ Finish(r)
    /\ UNCHANGED <<upload, temp, object, application, loose, left>>

CreateScheme(r, d) == CreatePublication(r, d, "scheme")
CreateEvent(r, d) == CreatePublication(r, d, "event")
CreateAnnouncement(r, d) == CreatePublication(r, d, "announcement")

\* The images the client sends and those just uploaded replace what the document has by now, in
\* one operation; without either, it keeps its images or, given an empty list, loses them.  The
\* other fields are written as they come too, isActive among them.
UpdatePublication(r, k) ==
    LET d == task[r].publication
        has == publication[d].images
    IN  /\ At(r, "update")
        /\ publication[d].kind = k
        /\ \E active \in BOOLEAN, images \in {has} \cup SUBSET Nameable :
              /\ task[r].files \subseteq images
              /\ publication' = [publication EXCEPT ![d].isActive = active, ![d].images = images]
              /\ loose' = loose \cup ((has \ images) \cap object)
              /\ named' = named \cup Objectless(images)
        /\ Finish(r)
        /\ UNCHANGED <<upload, temp, object, application, left>>

UpdateScheme(r) == UpdatePublication(r, "scheme")
UpdateEvent(r) == UpdatePublication(r, "event")
UpdateAnnouncement(r) == UpdatePublication(r, "announcement")

Deactivate(d) ==
    /\ publication[d].isActive
    /\ publication' = [publication EXCEPT ![d].isActive = FALSE]
    /\ UNCHANGED <<upload, temp, object, application, task, loose, named, left>>

-----------------------------------------------------------------------------
(* Applications *)

Applied(c, d) ==
    \E a \in Application : Made(a) /\ application[a].citizen = c /\ application[a].scheme = d

\* The scheme is there, is active, and its required documents and fields were sent.
ReadScheme(r) ==
    /\ At(r, "scheme")
    /\ publication[task[r].publication].isActive
    /\ Goto(r, "existing")
    /\ UNCHANGED <<upload, temp, object, publication, application, loose, named, left>>

CheckExisting(r) ==
    /\ At(r, "existing")
    /\ ~Applied(task[r].citizen, task[r].publication)
    /\ Goto(r, "insert")
    /\ UNCHANGED <<upload, temp, object, publication, application, loose, named, left>>

\* Mutant: the index is not unique, and the check of the service is all there is.
InsertApplicationUnasked(r, a) ==
    /\ At(r, "insert")
    /\ ~Made(a)
    /\ application' = [application EXCEPT
           ![a] = [status |-> "applied", scheme |-> task[r].publication,
                   citizen |-> task[r].citizen, documents |-> task[r].files]]
    /\ Finish(r)
    /\ UNCHANGED <<upload, temp, object, publication, loose, named, left>>

\* The unique index on citizen and scheme decides between two that were both told there is none.
InsertApplication(r, a) ==
    /\ At(r, "insert")
    /\ ~Made(a)
    /\ ~Applied(task[r].citizen, task[r].publication)
    /\ application' = [application EXCEPT
           ![a] = [status |-> "applied", scheme |-> task[r].publication,
                   citizen |-> task[r].citizen, documents |-> task[r].files]]
    /\ Finish(r)
    /\ UNCHANGED <<upload, temp, object, publication, loose, named, left>>

\* Mutant: the schema knows the status the service and the route call 'pending', as 'applied'.
DecisionsWithPending == {"applied", "approved", "rejected"}

\* Mutant: the update is not validated against the schema.
DecisionsUnvalidated == {"pending", "approved", "rejected"}

\* updateStatus lets 'pending', 'approved' and 'rejected' pass, the schema refuses the first.
Decisions == {"pending", "approved", "rejected"} \cap {"applied", "approved", "rejected"}

\* Whatever the status was.
UpdateStatus(a, s) ==
    /\ Made(a)
    /\ s \in Decisions
    /\ application' = [application EXCEPT ![a].status = s]
    /\ UNCHANGED <<upload, temp, object, publication, task, loose, named, left>>

-----------------------------------------------------------------------------

\* The process dies: its requests and uploads end where they are, its disk keeps the copies.
Die ==
    LET going == {f \in File : upload[f] = "going"}
    IN  /\ going # {} \/ \E r \in Request : ~At(r, "idle")
        /\ upload' = [f \in File |-> IF f \in going THEN "failed" ELSE upload[f]]
        /\ object' \in {object \cup F : F \in SUBSET going}
        /\ task' = [r \in Request |-> Idle]
        /\ loose' = loose \cup UNION {task[r].files : r \in Request}
        /\ left' = left \cup temp
        /\ UNCHANGED <<temp, publication, application, named>>

\* What a request is begun for; one that applies for anything but a scheme is told it is not
\* found.
BeginUpload(r) == \E F \in SUBSET File \ {{}} : Begin(r, [Idle EXCEPT !.then = "answer", !.files = F])

BeginCreate(r) == \E F \in SUBSET File : Begin(r, [Idle EXCEPT !.then = "create", !.files = F])

BeginUpdate(r) ==
    \E d \in {x \in Publication : Exists(x)} :
    \E F \in SUBSET File :
       Begin(r, [Idle EXCEPT !.then = "update", !.files = F, !.publication = d])

BeginApply(r) ==
    \E d \in {x \in Publication : publication[x].kind = "scheme"} :
    \E F \in SUBSET File, c \in Citizen :
       Begin(r, [Idle EXCEPT !.then = "scheme", !.files = F, !.publication = d, !.citizen = c])

RequestStep(r) ==
    \/ Uploaded(r)
    \/ UploadFails(r)
    \/ WriteFails(r)
    \/ AnswerUpload(r)
    \/ \E d \in Publication : CreateScheme(r, d) \/ CreateEvent(r, d) \/ CreateAnnouncement(r, d)
    \/ UpdateScheme(r)
    \/ UpdateEvent(r)
    \/ UpdateAnnouncement(r)
    \/ ReadScheme(r)
    \/ CheckExisting(r)
    \/ \E a \in Application : InsertApplication(r, a)

Next ==
    \/ \E r \in Request :
          \/ BeginUpload(r)
          \/ BeginCreate(r)
          \/ BeginUpdate(r)
          \/ BeginApply(r)
          \/ RequestStep(r)
          \/ \E F \in SUBSET File : RefuseFiles(r, F)
    \/ \E f \in File : StoreFile(f) \/ FailFile(f) \/ DeleteImage(f)
    \/ \E d \in Publication : Deactivate(d)
    \/ \E a \in Application : \E s \in Decisions : UpdateStatus(a, s)
    \/ Die

Spec == Init /\ [][Next]_vars

-----------------------------------------------------------------------------
(* Properties *)

\* The state has its shape.
TypeOK ==
    /\ upload \in [File -> Upload]
    /\ temp \subseteq File
    /\ object \subseteq File
    /\ publication \in [Publication -> PublicationRow]
    /\ application \in [Application -> ApplicationRow]
    /\ task \in [Request -> Task]
    /\ loose \subseteq File
    /\ named \subseteq File
    /\ left \subseteq File

\* The database and the storage agree: a document refers to objects that were stored and not
\* destroyed on request, but for images that a client named and that never were, and an object
\* nothing refers to was uploaded by a request that is still under way, that has failed, that
\* handed it out, or whose images were replaced.
StorageExplained ==
    \A f \in File :
        /\ Referred(f) => \/ upload[f] = "stored" /\ f \in object
                          \/ upload[f] = "destroyed"
                          \/ f \in named
        /\ f \in object => \/ Referred(f)
                           \/ f \in loose
                           \/ \E r \in Request : f \in task[r].files

\* "Prevent multiple applications for the same scheme by the same citizen", though two requests
\* may both have found that there is none.
OneApplication ==
    \A a, b \in Application :
        Made(a) /\ Made(b)
          /\ application[a].citizen = application[b].citizen
          /\ application[a].scheme = application[b].scheme => a = b

\* A decision can be changed into the other and never withdrawn.
DecisionsStay ==
    [][\A a \in Application :
          application[a].status \in {"approved", "rejected"}
            => application'[a].status \in {"approved", "rejected"}]_vars

\* "Always clean up temporary local file(s)": whatever becomes of a request whose files were let
\* in, a copy stays no longer than its upload goes on, also when others of the request failed and
\* the request was answered long ago; only the death of the process leaves copies behind, and the
\* refusal of the request before any upload.
NoCopyForgotten == \A f \in File : f \in temp => upload[f] = "going" \/ f \in left

=============================================================================
