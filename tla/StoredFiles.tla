----------------------------- MODULE StoredFiles ------------------------------
(***************************************************************************)
(* Rows that name files: pictures of departments, users and courses        *)
(* (departments.service.ts, users.service.ts, courses.service.ts), banners *)
(* (banners.service.ts), logos (logo.service.ts) and the files of a course *)
(* (subjects.service.ts), whose uploads lie on the server's disk, and      *)
(* recordings of live classes (streaming.service.ts), whose files an       *)
(* external recorder keeps.                                                *)
(*                                                                         *)
(* A request is a process; its upload is on disk, under a name of its own, *)
(* before its handler runs.  StorageHelpers.deleteFile returns at once and *)
(* deletes in two asynchronous steps, whose errors are only logged.        *)
(* One column stands for the four of a department.                         *)
(***************************************************************************)
EXTENDS Integers, Sequences

CONSTANTS
  Request,   \* calls of the handlers below; an upload is named after its call
  Department, User, Course, Banner, Logo,
  Content,   \* files of a course's curriculums
  Title,     \* titles of logos, which their uploads are renamed after
  Given,     \* names of files that the body of an update may give
  None       \* no file (or an avatar elsewhere, a URL), no title

Row   == Department \cup User \cup Course \cup Banner \cup Logo \cup Content
First == Department \cup Banner \cup Content     \* a row's first file is named after it
Path  == Request \cup Title \cup First

ASSUME NamesAreApart ==
  /\ Given \subseteq Path /\ None \notin Path /\ Request \cap Title = {} /\ First \cap (Request \cup Title) = {}
  /\ Logo \cap (Department \cup User \cup Course \cup Banner \cup Content) = {}
  /\ Content \cap (Department \cup User \cup Course \cup Banner) = {}
  /\ Banner \cap (Department \cup User \cup Course) = {}

VARIABLES
  file,      \* the rows, and the file each names
  gone,      \* rows that were removed: their ids are not used again
  disk,      \* files under public/uploads
  erase,     \* the deletion each request has set off
  quoted,    \* history: the names that came from the body of an update
  rec,       \* Recording rows of one live class, by created_at
  running,   \* recordings the recorder is making
  req        \* where each request is, and what it has read

diskVars == <<file, gone, disk, erase, quoted>>
recVars == <<rec, running>>
vars == <<diskVars, recVars, req>>

Recording == [uuid : Request, status : {"processing", "success", "failed"},
              url : Request \cup {None}]

Fresh == [pc |-> "new"]
Done == [pc |-> "done"]

Init ==
  /\ file \in {<<>>, [x \in First |-> x]}      \* bound: the rows that need a file, or none
  /\ disk = DOMAIN file
  /\ gone = {} /\ quoted = {}
  /\ erase = [r \in Request |-> [pc |-> "none", path |-> None]]
  /\ rec = <<>> /\ running = {}
  /\ req = [r \in Request |-> Fresh]

At(r, pc) == req[r].pc = pc
Go(r, state) == req' = [req EXCEPT ![r] = state]
Fail(r) == req' = [req EXCEPT ![r].pc = "failed"]

-----------------------------------------------------------------------------
(* Files: storage.utils.ts *)

Present(x) == x \in DOMAIN file
Unborn(x) == ~Present(x) /\ x \notin gone
Name(x, path) == file' = [y \in DOMAIN file \cup {x} |-> IF y = x THEN path ELSE file[y]]

DeleteFile(r, path) ==
  erase' = IF path = None THEN erase ELSE [erase EXCEPT ![r] = [pc |-> "open", path |-> path]]

EraseOpen(r) ==
  /\ erase[r].pc = "open"
  /\ erase' = [erase EXCEPT ![r].pc = IF erase[r].path \in disk THEN "unlink" ELSE "done"]
  /\ UNCHANGED <<file, gone, disk, quoted, recVars, req>>

EraseUnlink(r) ==
  /\ erase[r].pc = "unlink"
  /\ disk' = disk \ {erase[r].path}
  /\ erase' = [erase EXCEPT ![r].pc = "done"]
  /\ UNCHANGED <<file, gone, quoted, recVars, req>>

Upload(r, upload) == disk' = IF upload THEN disk \cup {r} ELSE disk

\* The upload takes the name of a title, and the place of what had that name.
RenameFile(r, title) == disk' = (disk \ {r}) \cup {title}

-----------------------------------------------------------------------------
(* Creating, updating, removing a row *)

\* A row that needs an upload is not made without one; no caller brings a new user's.
Create(r, x, upload) ==
  /\ At(r, "new") /\ Unborn(x)
  /\ Upload(r, upload)
  /\ \/ Name(x, IF upload THEN r ELSE None) /\ Go(r, Done)
     \/ UNCHANGED file /\ Go(r, [pc |-> "failed", row |-> x])
  /\ UNCHANGED <<gone, erase, quoted, recVars>>

CreateDepartment(r, x) == x \in Department /\ Create(r, x, TRUE)
CreateBanner(r, x) == x \in Banner /\ Create(r, x, TRUE)
AddFileContent(r, x) == x \in Content /\ Create(r, x, TRUE)
CreateUser(r, x) == x \in User /\ Create(r, x, FALSE)
CreateCourse(r, x, upload) == x \in Course /\ Create(r, x, upload)

\* A logo is refused if there is a file of its title ...
CreateLogo(r, x, title) ==
  /\ At(r, "new") /\ Unborn(x) /\ x \in Logo
  /\ Upload(r, TRUE)
  /\ IF title \in disk
     THEN DeleteFile(r, r) /\ Go(r, Done)
     ELSE Go(r, [pc |-> "place", row |-> x, path |-> title]) /\ UNCHANGED erase
  /\ UNCHANGED <<file, gone, quoted, recVars>>

\* ... which is looked for before the upload is renamed.
PlaceLogo(r) ==
  /\ At(r, "place")
  /\ RenameFile(r, req[r].path)
  /\ req' = [req EXCEPT ![r].pc = "insert"]
  /\ UNCHANGED <<file, gone, erase, quoted, recVars>>

InsertLogo(r) ==
  /\ At(r, "insert")
  /\ \/ Unborn(req[r].row) /\ Name(req[r].row, req[r].path) /\ Go(r, Done)
     \/ UNCHANGED file /\ Fail(r)
  /\ UNCHANGED <<gone, disk, erase, quoted, recVars>>

\* An update that brings a file has the old one deleted, and then writes.
Update(r, x, upload, pc, path) ==
  /\ At(r, "new") /\ Present(x)
  /\ Upload(r, upload)
  /\ IF upload THEN DeleteFile(r, file[x]) ELSE UNCHANGED erase
  /\ Go(r, [pc |-> IF upload THEN pc ELSE "write",
            row |-> x, upload |-> upload, seen |-> file[x], path |-> path])
  /\ UNCHANGED <<file, gone, quoted, recVars>>

UpdateDepartment(r, x, upload) == x \in Department /\ Update(r, x, upload, "write", r)
UpdateUser(r, x, upload) == x \in User /\ Update(r, x, upload, "write", r)
UpdateCourse(r, x, upload) == x \in Course /\ Update(r, x, upload, "write", r)
UpdateBanner(r, x, upload) == x \in Banner /\ Update(r, x, upload, "write", r)

\* A logo's upload is renamed between, which fails without a title.
UpdateLogo(r, x, upload, title) ==
  x \in Logo /\ Update(r, x, upload, IF title = None THEN "failed" ELSE "rename", title)

\* A course's file needs an upload, and the old one stays.
UpdateFileContent(r, x) ==
  /\ At(r, "new") /\ Present(x) /\ x \in Content
  /\ Upload(r, TRUE)
  /\ Go(r, [pc |-> "write", row |-> x, upload |-> TRUE, seen |-> file[x], path |-> r])
  /\ UNCHANGED <<file, gone, erase, quoted, recVars>>

RenameLogo(r) ==
  /\ At(r, "rename")
  /\ RenameFile(r, req[r].path)
  /\ req' = [req EXCEPT ![r].pc = "write"]
  /\ UNCHANGED <<file, gone, erase, quoted, recVars>>

\* Mutant: every row is written like a banner's.
NewName_AsSeen(q) == IF q.upload THEN q.path ELSE q.seen

NewName(q) ==
  IF q.upload THEN q.path ELSE IF q.row \in Banner THEN q.seen ELSE file[q.row]

Write(r, path) ==
  /\ Present(req[r].row) /\ Name(req[r].row, path)
  /\ Go(r, Done)

\* The write fails if the row has gone, and may for other reasons, such as an owner
\* that is not there.
WriteRow(r) ==
  /\ At(r, "write")
  /\ \/ Write(r, NewName(req[r]))
     \/ UNCHANGED file /\ Fail(r)
  /\ UNCHANGED <<gone, disk, erase, quoted, recVars>>

\* The picture of a department or a course is a field of the update's body too, which
\* is written as it is if there is no upload: any name, or none.
WriteGiven(r) ==
  /\ At(r, "write") /\ ~req[r].upload /\ req[r].row \in Department \cup Course
  /\ \E path \in Given \cup {None} : Write(r, path) /\ quoted' = quoted \cup {path}
  /\ UNCHANGED <<gone, disk, erase, recVars>>

\* The file goes first, then the row; a course's file stays.
ReadForRemoval(r, x) ==
  /\ At(r, "new") /\ Present(x)
  /\ IF x \in Content THEN UNCHANGED erase ELSE DeleteFile(r, file[x])
  /\ Go(r, [pc |-> "remove", row |-> x])
  /\ UNCHANGED <<file, gone, disk, quoted, recVars>>

RemoveRow(r) ==
  LET x == req[r].row IN
  /\ At(r, "remove")
  /\ \/ /\ Present(x) /\ Go(r, Done)
        /\ file' = [y \in DOMAIN file \ {x} |-> file[y]] /\ gone' = gone \cup {x}
     \/ UNCHANGED <<file, gone>> /\ Fail(r)
  /\ UNCHANGED <<disk, erase, quoted, recVars>>

-----------------------------------------------------------------------------
(* Recordings *)

\* startRecord asks the recorder, which may begin though its answer is lost.
StartRecord(r) ==
  /\ At(r, "new")
  /\ running' \in {running, running \cup {r}}
  /\ \/ r \in running' /\ Go(r, [pc |-> "record"])
     \/ Go(r, [pc |-> "trouble", start |-> TRUE])
  /\ UNCHANGED <<diskVars, rec>>

CreateRecording(r) ==
  /\ At(r, "record")
  /\ \/ /\ rec' = Append(rec, [uuid |-> r, status |-> "processing", url |-> None])
        /\ Go(r, Done)
     \/ UNCHANGED rec /\ Go(r, [pc |-> "trouble", start |-> TRUE])
  /\ UNCHANGED <<diskVars, running>>

\* stopRecord stops the latest recording ...
FindRecording(r) ==
  /\ At(r, "new") /\ rec # <<>>
  /\ Go(r, [pc |-> "stop", id |-> Len(rec)])
  /\ UNCHANGED <<diskVars, recVars>>

StopRecord(r) ==
  LET uuid == rec[req[r].id].uuid IN
  /\ At(r, "stop")
  /\ \/ /\ uuid \in running /\ running' = running \ {uuid}
        /\ req' = [req EXCEPT ![r].pc = "store"]
     \/ running' \in {running, running \ {uuid}} /\ Go(r, [pc |-> "trouble", start |-> FALSE])
  /\ UNCHANGED <<diskVars, rec>>

Store(r, id) ==
  /\ At(r, "store")
  /\ \/ /\ rec' = [rec EXCEPT ![id].status = "success", ![id].url = rec[req[r].id].uuid]
        /\ Go(r, Done)
     \/ UNCHANGED rec /\ Go(r, [pc |-> "trouble", start |-> FALSE])
  /\ UNCHANGED <<diskVars, running>>

\* Mutant: the latest recording is looked up again.
StoreRecording_Latest(r) == Store(r, Len(rec))

StoreRecording(r) == Store(r, req[r].id)

\* ... and an error, of either, is put down to the recording that is the latest by
\* then; one of startRecord to none, if that is a day old.
FindLatest(r) ==
  /\ At(r, "trouble")
  /\ \/ rec # <<>> /\ Go(r, [pc |-> "blame", id |-> Len(rec)])
     \/ req[r].start /\ Go(r, Done)
  /\ UNCHANGED <<diskVars, recVars>>

MarkFailed(r) ==
  /\ At(r, "blame")
  /\ rec' = [rec EXCEPT ![req[r].id].status = "failed"]
  /\ Go(r, Done)
  /\ UNCHANGED <<diskVars, running>>

-----------------------------------------------------------------------------
CreateStep(r) == \E x \in Row :
  \/ CreateDepartment(r, x) \/ CreateBanner(r, x) \/ AddFileContent(r, x)
  \/ CreateUser(r, x) \/ \E upload \in BOOLEAN : CreateCourse(r, x, upload)
  \/ \E title \in Title : CreateLogo(r, x, title)

UpdateStep(r) == \E x \in Row :
  \/ \E upload \in BOOLEAN :
       \/ UpdateDepartment(r, x, upload) \/ UpdateUser(r, x, upload)
       \/ UpdateCourse(r, x, upload) \/ UpdateBanner(r, x, upload)
       \/ \E title \in Title \cup {None} : UpdateLogo(r, x, upload, title)
  \/ UpdateFileContent(r, x)

RowStep(r) ==
  \/ CreateStep(r) \/ UpdateStep(r) \/ \E x \in Row : ReadForRemoval(r, x)
  \/ PlaceLogo(r) \/ InsertLogo(r) \/ RenameLogo(r) \/ WriteRow(r) \/ WriteGiven(r)
  \/ RemoveRow(r) \/ EraseOpen(r) \/ EraseUnlink(r)

RecordingStep(r) ==
  \/ StartRecord(r) \/ CreateRecording(r) \/ FindRecording(r) \/ StopRecord(r)
  \/ StoreRecording(r) \/ FindLatest(r) \/ MarkFailed(r)

Next == \E r \in Request : RowStep(r) \/ RecordingStep(r)

Spec == Init /\ [][Next]_vars

-----------------------------------------------------------------------------
(* Properties *)

\* Every variable keeps its type; a removed row does not come back.
TypeOK ==
  /\ DOMAIN file \subseteq Row /\ gone \subseteq Row \ DOMAIN file
  /\ \A x \in DOMAIN file : file[x] \in Path \cup {None}
  /\ disk \subseteq Path /\ quoted \subseteq Path \cup {None}
  /\ erase \in [Request -> [pc : {"none", "open", "unlink", "done"}, path : Path \cup {None}]]
  /\ rec \in Seq(Recording)
  /\ running \subseteq Request

\* A department, user, course or course file whose picture or file is missing from
\* the disk owes it to a request that is replacing or removing it, or failed to, or
\* its name to the body of an update: updates that overlap do not take each other's
\* files, and none puts back a name whose file another deleted (update and remove of
\* the four services).
PictureIsThere ==
  \A x \in DOMAIN file \ (Banner \cup Logo) :
    file[x] # None /\ file[x] \notin disk /\ file[x] \notin quoted =>
      \E r \in Request : /\ req[r].pc \in {"write", "remove", "failed"}
                         /\ req[r].row = x /\ erase[r].path = file[x]

\* A recording that has a file has its own, which the recorder has finished, though
\* others are started while it is being stopped (stopRecord).
RecordingHasItsFile ==
  \A i \in DOMAIN rec : rec[i].url # None => rec[i].url = rec[i].uuid /\ rec[i].uuid \notin running
=============================================================================
