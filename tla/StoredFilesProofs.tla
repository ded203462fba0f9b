------------------------- MODULE StoredFilesProofs -------------------------
(***************************************************************************)
(* Proofs about StoredFiles: its type invariant, that a recording with a   *)
(* file has its own, and that no picture of a department, user or course   *)
(* and no course file is lost to another's request.                        *)
(***************************************************************************)
EXTENDS StoredFiles, TLAPS

\* What a request in the middle of its handler remembers.
Placing   == [pc : {"place", "insert"}, row : Logo, path : Title]
Writing   == [pc : {"write", "rename"}, row : Row, upload : BOOLEAN,
              seen : Path \cup {None}, path : Path \cup {None}]
Removing  == [pc : {"remove"}, row : Row]
Stopping  == [pc : {"stop", "store"}, id : 1 .. Len(rec)]
Blaming   == [pc : {"blame"}, id : 1 .. Len(rec)]

\* An upload is stored under its own name, but a logo's under its title.
ReqTyped(r) ==
  /\ req[r].pc \in {"place", "insert"} => req[r] \in Placing
  /\ req[r].pc \in {"write", "rename"} =>
       /\ req[r] \in Writing
       /\ req[r].row \in Logo /\ (req[r].upload \/ req[r].pc = "rename") => req[r].path \in Title
       /\ req[r].row \notin Logo => req[r].path = r /\ req[r].pc = "write"
  /\ req[r].pc = "remove" => req[r] \in Removing
  /\ req[r].pc \in {"stop", "store"} => req[r] \in Stopping
  /\ req[r].pc = "blame" => req[r] \in Blaming

Typed ==
  /\ TypeOK
  /\ DOMAIN req = Request
  /\ \A r \in Request : ReqTyped(r)

FileTyped ==
  /\ DOMAIN file \subseteq Row /\ gone \subseteq Row \ DOMAIN file
  /\ \A x \in DOMAIN file : file[x] \in Path \cup {None}
Erasures == [Request -> [pc : {"none", "open", "unlink", "done"}, path : Path \cup {None}]]

LEMMA TypeInit == Init => Typed
<1> SUFFICES ASSUME Init PROVE Typed
  OBVIOUS
<1>1. FileTyped /\ disk \subseteq Path /\ quoted \subseteq Path \cup {None}
  BY DEF Init, FileTyped, Row, First, Path
<1>2. erase \in Erasures
  BY DEF Init, Erasures
<1>3. rec \in Seq(Recording) /\ running \subseteq Request
  BY DEF Init
<1>4. DOMAIN req = Request /\ \A r \in Request : ReqTyped(r)
  BY DEF Init, Fresh, ReqTyped
<1> QED BY <1>1, <1>2, <1>3, <1>4 DEF Typed, TypeOK, FileTyped, Erasures

LEMMA GoTyped ==
  ASSUME Typed, NEW r \in Request, NEW state, Go(r, state), Len(rec') >= Len(rec), rec' \in Seq(Recording),
         state.pc \in {"place", "insert"} => state \in Placing,
         state.pc \in {"write", "rename"} =>
           /\ state \in Writing
           /\ state.row \in Logo /\ (state.upload \/ state.pc = "rename") => state.path \in Title
           /\ state.row \notin Logo => state.path = r /\ state.pc = "write",
         state.pc = "remove" => state \in Removing,
         state.pc \in {"stop", "store"} => state \in Stopping,
         state.pc = "blame" => state \in Blaming
  PROVE  DOMAIN req' = Request /\ \A x \in Request : ReqTyped(x)'
<1>1. DOMAIN req' = Request /\ \A x \in Request : req'[x] = IF x = r THEN state ELSE req[x]
  BY DEF Typed, Go
<1>2. 1 .. Len(rec) \subseteq 1 .. Len(rec')
  BY DEF Typed, TypeOK
<1>3. Stopping \subseteq Stopping' /\ Blaming \subseteq Blaming'
  BY <1>2 DEF Stopping, Blaming
<1>4. ASSUME NEW x \in Request PROVE ReqTyped(x)'
  <2>1. CASE x = r
    BY <1>1, <1>3, <2>1 DEF ReqTyped, Placing, Writing, Removing
  <2>2. CASE x # r
    <3>1. ReqTyped(x) /\ req'[x] = req[x]
      BY <1>1, <2>2 DEF Typed
    <3> QED BY <1>3, <3>1 DEF ReqTyped, Placing, Writing, Removing
  <2> QED BY <2>1, <2>2
<1> QED BY <1>1, <1>4

LEMMA DeleteTyped ==
  ASSUME TypeOK, NEW r \in Request, NEW path \in Path \cup {None}, DeleteFile(r, path)
  PROVE  erase' \in Erasures
  BY DEF TypeOK, DeleteFile, Erasures

LEMMA NameTyped ==
  ASSUME TypeOK, NEW x \in Row \ gone, NEW path \in Path \cup {None}, Name(x, path), gone' = gone
  PROVE  FileTyped'
  BY DEF TypeOK, Name, FileTyped

\* The six parts of the type invariant, for the steps that change few of them.
LEMMA TypedParts ==
  ASSUME FileTyped', disk' \subseteq Path, erase' \in Erasures, rec' \in Seq(Recording),
         quoted' \subseteq Path \cup {None},
         running' \subseteq Request, DOMAIN req' = Request, \A x \in Request : ReqTyped(x)'
  PROVE  Typed'
  BY DEF Typed, TypeOK, FileTyped, Erasures

LEMMA FailTyped ==
  ASSUME Typed, NEW r \in Request, Fail(r), rec' = rec,
         req[r].pc \in {"insert", "write", "remove"}
  PROVE  DOMAIN req' = Request /\ \A x \in Request : ReqTyped(x)'
<1> DEFINE state == [req[r] EXCEPT !.pc = "failed"]
<1>1. req[r] \in Placing \cup Writing \cup Removing
  BY DEF Typed, ReqTyped
<1>2. state.pc = "failed"
  BY <1>1 DEF Placing, Writing, Removing
<1>3. Go(r, state)
  BY DEF Fail, Go
<1>4. Len(rec) \in Nat /\ rec \in Seq(Recording)
  BY DEF Typed, TypeOK
<1> HIDE DEF state
<1> QED BY <1>2, <1>3, <1>4, GoTyped

LEMMA RowStepTyped ==
  ASSUME Typed, NEW r \in Request, RowStep(r) PROVE Typed'
<1> USE DEF Typed, diskVars, recVars
<1>0. /\ FileTyped /\ disk \subseteq Path /\ erase \in Erasures /\ rec \in Seq(Recording)
      /\ running \subseteq Request /\ Len(rec) \in Nat /\ quoted \subseteq Path \cup {None}
  BY DEF TypeOK, FileTyped, Erasures
<1>1. rec' = rec /\ running' = running /\ quoted' \subseteq Path \cup {None}
  <2>1. rec' = rec /\ running' = running
    BY DEF RowStep, CreateStep, UpdateStep, CreateDepartment, CreateBanner, AddFileContent, CreateUser,
       CreateCourse, CreateLogo, Create, UpdateDepartment, UpdateUser, UpdateCourse, UpdateBanner,
       UpdateLogo, Update, UpdateFileContent, ReadForRemoval, PlaceLogo, InsertLogo, RenameLogo,
       WriteRow, WriteGiven, Write, RemoveRow, EraseOpen, EraseUnlink
  <2>2. quoted' \subseteq Path \cup {None}
    <3>1. CASE WriteGiven(r)
      BY <1>0, <3>1, NamesAreApart DEF WriteGiven
    <3>2. CASE ~WriteGiven(r)
      BY <1>0, <3>2 DEF RowStep, CreateStep, UpdateStep, CreateDepartment, CreateBanner, AddFileContent, CreateUser,
         CreateCourse, CreateLogo, Create, UpdateDepartment, UpdateUser, UpdateCourse, UpdateBanner,
         UpdateLogo, Update, UpdateFileContent, ReadForRemoval, PlaceLogo, InsertLogo, RenameLogo,
         WriteRow, RemoveRow, EraseOpen, EraseUnlink
    <3> QED BY <3>1, <3>2
  <2> QED BY <2>1, <2>2
<1>2. ASSUME NEW x \in Row, NEW upload \in BOOLEAN, Create(r, x, upload) PROVE Typed'
  <2>1. FileTyped'
    <3>1. x \in Row \ gone /\ gone' = gone
      BY <1>2 DEF Create, Unborn
    <3>2. (IF upload THEN r ELSE None) \in Path \cup {None}
      BY DEF Path
    <3> QED BY <1>0, <1>2, <3>1, <3>2, NameTyped DEF Create, FileTyped
  <2>2. disk' \subseteq Path
    BY <1>0, <1>2 DEF Create, Upload, Path
  <2>3. PICK state : Go(r, state) /\ state.pc \in {"done", "failed"}
    BY <1>2 DEF Create, Done
  <2>4. DOMAIN req' = Request /\ \A y \in Request : ReqTyped(y)'
    BY <1>0, <1>1, <2>3, GoTyped
  <2> QED BY <1>0, <1>1, <1>2, <2>1, <2>2, <2>4, TypedParts DEF Create
<1>3. ASSUME NEW x \in Row, NEW title \in Title, CreateLogo(r, x, title) PROVE Typed'
  <2>1. FileTyped'
    BY <1>0, <1>3 DEF CreateLogo, FileTyped
  <2>2. disk' \subseteq Path /\ r \in Path
    BY <1>0, <1>3 DEF CreateLogo, Upload, Path
  <2>3. erase' \in Erasures
    BY <1>0, <1>3, <2>2, DeleteTyped DEF CreateLogo
  <2>4. DOMAIN req' = Request /\ \A y \in Request : ReqTyped(y)'
    <3>1. CASE Go(r, Done)
      BY <1>0, <1>1, <3>1, GoTyped DEF Done
    <3>2. CASE Go(r, [pc |-> "place", row |-> x, path |-> title])
      <4> DEFINE state == [pc |-> "place", row |-> x, path |-> title]
      <4>1. state \in Placing /\ state.pc = "place"
        BY <1>3 DEF Placing, CreateLogo
      <4>2. Go(r, state)
        BY <3>2
      <4> HIDE DEF state
      <4> QED BY <1>0, <1>1, <4>1, <4>2, GoTyped
    <3> QED BY <1>3, <3>1, <3>2 DEF CreateLogo
  <2> QED BY <1>0, <1>1, <1>3, <2>1, <2>2, <2>3, <2>4, TypedParts
<1>4. ASSUME NEW x \in Row, NEW upload \in BOOLEAN,
             NEW pc \in {"write", "rename", "failed"}, NEW path \in Path \cup {None},
             Update(r, x, upload, pc, path),
             x \notin Logo => pc = "write" /\ path = r,
             x \in Logo => pc = "failed" \/ (pc = "rename" /\ path \in Title)
      PROVE  Typed'
  <2>1. FileTyped'
    BY <1>0, <1>4 DEF Update, FileTyped
  <2>2. disk' \subseteq Path
    BY <1>0, <1>4 DEF Update, Upload, Path
  <2>3. file[x] \in Path \cup {None}
    BY <1>4 DEF Update, Present, TypeOK
  <2>4. erase' \in Erasures
    BY <1>0, <1>4, <2>3, DeleteTyped DEF Update
  <2> DEFINE state == [pc |-> IF upload THEN pc ELSE "write",
                       row |-> x, upload |-> upload, seen |-> file[x], path |-> path]
  <2>5. Go(r, state)
    BY <1>4 DEF Update
  <2>6. state.pc \in {"write", "rename"} => state \in Writing
    BY <1>4, <2>3 DEF Writing
  <2>7. /\ state.pc \in {"write", "rename", "failed"} /\ state.row = x /\ state.path = path
        /\ state.upload = upload /\ (upload => state.pc = pc) /\ (~upload => state.pc = "write")
    BY <1>4
  <2> HIDE DEF state
  <2>8. DOMAIN req' = Request /\ \A y \in Request : ReqTyped(y)'
    BY <1>0, <1>1, <1>4, <2>5, <2>6, <2>7, GoTyped
  <2> QED BY <1>0, <1>1, <2>1, <2>2, <2>4, <2>8, TypedParts
<1>5. ASSUME NEW x \in Row, UpdateFileContent(r, x) PROVE Typed'
  <2>1. FileTyped' /\ erase' \in Erasures
    BY <1>0, <1>5 DEF UpdateFileContent, FileTyped
  <2>2. disk' \subseteq Path
    BY <1>0, <1>5 DEF UpdateFileContent, Upload, Path
  <2> DEFINE state == [pc |-> "write", row |-> x, upload |-> TRUE, seen |-> file[x], path |-> r]
  <2>3. Go(r, state)
    BY <1>5 DEF UpdateFileContent
  <2>4. file[x] \in Path \cup {None} /\ r \in Path /\ x \notin Logo
    BY <1>5, NamesAreApart DEF UpdateFileContent, Present, TypeOK, Path
  <2>5. state \in Writing /\ state.pc = "write" /\ state.row = x /\ state.path = r
    BY <2>4 DEF Writing
  <2> HIDE DEF state
  <2>6. DOMAIN req' = Request /\ \A y \in Request : ReqTyped(y)'
    BY <1>0, <1>1, <2>3, <2>4, <2>5, GoTyped
  <2> QED BY <1>0, <1>1, <2>1, <2>2, <2>6, TypedParts
<1>6. ASSUME NEW x \in Row, ReadForRemoval(r, x) PROVE Typed'
  <2>1. FileTyped' /\ disk' \subseteq Path
    BY <1>0, <1>6 DEF ReadForRemoval, FileTyped
  <2>2. file[x] \in Path \cup {None}
    BY <1>6 DEF ReadForRemoval, Present, TypeOK
  <2>3. erase' \in Erasures
    BY <1>0, <1>6, <2>2, DeleteTyped DEF ReadForRemoval
  <2> DEFINE state == [pc |-> "remove", row |-> x]
  <2>4. Go(r, state) /\ state \in Removing /\ state.pc = "remove"
    BY <1>6 DEF ReadForRemoval, Removing
  <2> HIDE DEF state
  <2>5. DOMAIN req' = Request /\ \A y \in Request : ReqTyped(y)'
    BY <1>0, <1>1, <2>4, GoTyped
  <2> QED BY <1>0, <1>1, <2>1, <2>3, <2>5, TypedParts
<1>7. CASE PlaceLogo(r) \/ RenameLogo(r)
  <2>1. FileTyped' /\ erase' \in Erasures
    BY <1>0, <1>7 DEF PlaceLogo, RenameLogo, FileTyped
  <2>2. req[r] \in Placing \cup Writing /\ req[r].path \in Title
    BY <1>7 DEF PlaceLogo, RenameLogo, At, ReqTyped, Placing
  <2>3. disk' \subseteq Path
    BY <1>0, <1>7, <2>2 DEF PlaceLogo, RenameLogo, RenameFile, Path
  <2>4. CASE PlaceLogo(r)
    <3> DEFINE state == [req[r] EXCEPT !.pc = "insert"]
    <3>1. Go(r, state)
      BY <2>4 DEF PlaceLogo, Go
    <3>2. req[r] \in Placing
      BY <2>4 DEF PlaceLogo, At, ReqTyped
    <3>3. state \in Placing /\ state.pc = "insert"
      BY <3>2 DEF Placing
    <3> HIDE DEF state
    <3>4. DOMAIN req' = Request /\ \A y \in Request : ReqTyped(y)'
      BY <1>0, <1>1, <3>1, <3>3, GoTyped
    <3> QED BY <1>0, <1>1, <2>1, <2>3, <3>4, TypedParts
  <2>5. CASE RenameLogo(r)
    <3> DEFINE state == [req[r] EXCEPT !.pc = "write"]
    <3>1. Go(r, state)
      BY <2>5 DEF RenameLogo, Go
    <3>2. req[r] \in Writing /\ req[r].row \in Logo
      BY <2>5 DEF RenameLogo, At, ReqTyped
    <3>3. /\ state \in Writing /\ state.pc = "write"
          /\ state.row = req[r].row /\ state.path = req[r].path
      BY <3>2 DEF Writing
    <3> HIDE DEF state
    <3>4. DOMAIN req' = Request /\ \A y \in Request : ReqTyped(y)'
      BY <1>0, <1>1, <2>2, <3>1, <3>2, <3>3, GoTyped
    <3> QED BY <1>0, <1>1, <2>1, <2>3, <3>4, TypedParts
  <2> QED BY <1>7, <2>4, <2>5
<1>8. CASE InsertLogo(r) \/ WriteRow(r) \/ WriteGiven(r)
  <2>1. gone' = gone /\ disk' = disk /\ erase' = erase
    BY <1>8 DEF InsertLogo, WriteRow, WriteGiven
  <2>2. CASE file' = file /\ Fail(r)
    <3>1. DOMAIN req' = Request /\ \A y \in Request : ReqTyped(y)'
      BY <1>1, <1>8, <2>2, FailTyped DEF InsertLogo, WriteRow, WriteGiven, At
    <3> QED BY <1>0, <1>1, <2>1, <2>2, <3>1, TypedParts DEF FileTyped
  <2>3. ASSUME NEW path, Name(req[r].row, path), Go(r, Done),
               \/ InsertLogo(r) /\ Unborn(req[r].row) /\ path = req[r].path
               \/ At(r, "write") /\ Present(req[r].row)
                  /\ path \in {NewName(req[r]), None} \cup Given
        PROVE  Typed'
    <3>1. req[r].row \in Row \ gone
      BY <2>3 DEF InsertLogo, At, ReqTyped, Placing, Writing, Unborn, Present, TypeOK, Row
    <3>2. path \in Path \cup {None}
      <4>1. CASE InsertLogo(r)
        BY <2>3, <4>1 DEF InsertLogo, At, ReqTyped, Placing, Path
      <4>2. CASE /\ At(r, "write") /\ Present(req[r].row)
                 /\ path \in {NewName(req[r]), None} \cup Given
        <5>1. req[r] \in Writing
          BY <4>2 DEF At, ReqTyped
        <5>2. file[req[r].row] \in Path \cup {None}
          BY <4>2 DEF Present, TypeOK
        <5> QED BY <4>2, <5>1, <5>2, NamesAreApart DEF Writing, NewName
      <4> QED BY <2>3, <4>1, <4>2
    <3>3. FileTyped'
      BY <2>1, <2>3, <3>1, <3>2, NameTyped
    <3>4. DOMAIN req' = Request /\ \A y \in Request : ReqTyped(y)'
      BY <1>0, <1>1, <2>3, GoTyped DEF Done
    <3> QED BY <1>0, <1>1, <2>1, <3>3, <3>4, TypedParts
  <2> QED BY <1>8, <2>2, <2>3 DEF InsertLogo, WriteRow, WriteGiven, Write
<1>9. CASE RemoveRow(r)
  <2>1. disk' = disk /\ erase' = erase
    BY <1>9 DEF RemoveRow
  <2>2. CASE UNCHANGED <<file, gone>> /\ Fail(r)
    <3>1. DOMAIN req' = Request /\ \A y \in Request : ReqTyped(y)'
      BY <1>1, <1>9, <2>2, FailTyped DEF RemoveRow, At
    <3> QED BY <1>0, <1>1, <2>1, <2>2, <3>1, TypedParts DEF FileTyped
  <2>3. CASE ~(UNCHANGED <<file, gone>> /\ Fail(r))
    <3> DEFINE x == req[r].row
    <3>1. x \in DOMAIN file /\ Go(r, Done) /\ gone' = gone \cup {x}
          /\ file' = [y \in DOMAIN file \ {x} |-> file[y]]
      BY <1>9, <2>3 DEF RemoveRow, Present
    <3> HIDE DEF x
    <3>2. FileTyped'
      BY <1>0, <3>1 DEF FileTyped
    <3>3. DOMAIN req' = Request /\ \A y \in Request : ReqTyped(y)'
      BY <1>0, <1>1, <3>1, GoTyped DEF Done
    <3> QED BY <1>0, <1>1, <2>1, <3>2, <3>3, TypedParts
  <2> QED BY <2>2, <2>3
<1>10. ASSUME NEW x \in Request, EraseOpen(x) \/ EraseUnlink(x) PROVE Typed'
  <2>1. erase' \in Erasures /\ disk' \subseteq Path
    BY <1>0, <1>10 DEF EraseOpen, EraseUnlink, Erasures
  <2>2. FileTyped' /\ DOMAIN req' = Request /\ \A y \in Request : ReqTyped(y)'
    BY <1>0, <1>1, <1>10 DEF EraseOpen, EraseUnlink, FileTyped, ReqTyped, Placing, Writing,
       Removing, Stopping, Blaming
  <2> QED BY <1>0, <1>1, <2>1, <2>2, TypedParts
<1>11. CASE UpdateStep(r)
  <2>1. PICK x \in Row, upload \in BOOLEAN :
          \/ UpdateDepartment(r, x, upload) \/ UpdateUser(r, x, upload)
          \/ UpdateCourse(r, x, upload) \/ UpdateBanner(r, x, upload)
          \/ \E title \in Title \cup {None} : UpdateLogo(r, x, upload, title)
          \/ UpdateFileContent(r, x)
    BY <1>11 DEF UpdateStep
  <2>2. r \in Path \cup {None} /\ Title \subseteq Path
    BY DEF Path
  <2>3. ASSUME NEW title \in Title \cup {None}, UpdateLogo(r, x, upload, title) PROVE Typed'
    <3>1. x \in Logo /\ title \in Path \cup {None}
      BY <2>2, <2>3 DEF UpdateLogo
    <3>2. CASE title = None
      <4>1. Update(r, x, upload, "failed", title)
        BY <2>3, <3>2 DEF UpdateLogo
      <4> QED BY <1>4, <3>1, <4>1
    <3>3. CASE title # None
      <4>1. Update(r, x, upload, "rename", title) /\ title \in Title
        BY <2>3, <3>3 DEF UpdateLogo
      <4> QED BY <1>4, <3>1, <4>1
    <3> QED BY <3>2, <3>3
  <2> QED BY <1>4, <1>5, <2>1, <2>2, <2>3, NamesAreApart DEF UpdateDepartment, UpdateUser,
          UpdateCourse, UpdateBanner
<1>12. CASE CreateStep(r)
  BY <1>2, <1>3, <1>12 DEF CreateStep, CreateDepartment, CreateBanner, AddFileContent, CreateUser,
     CreateCourse
<1> QED BY <1>6, <1>7, <1>8, <1>9, <1>10, <1>11, <1>12 DEF RowStep

LEMMA RecordingStepTyped ==
  ASSUME Typed, NEW r \in Request, RecordingStep(r) PROVE Typed'
<1> USE DEF Typed, diskVars, recVars
<1>0. /\ FileTyped /\ disk \subseteq Path /\ erase \in Erasures /\ rec \in Seq(Recording)
      /\ running \subseteq Request /\ Len(rec) \in Nat /\ quoted \subseteq Path \cup {None}
  BY DEF TypeOK, FileTyped, Erasures
<1>1. FileTyped' /\ disk' \subseteq Path /\ erase' \in Erasures /\ quoted' \subseteq Path \cup {None}
  BY <1>0 DEF RecordingStep, StartRecord, CreateRecording, FindRecording, StopRecord, StoreRecording,
     Store, FindLatest, MarkFailed, FileTyped
<1>2. running' \subseteq Request
  BY <1>0 DEF RecordingStep, StartRecord, CreateRecording, FindRecording, StopRecord, StoreRecording,
     Store, FindLatest, MarkFailed
\* A request that is done, in trouble or about to make its row remembers nothing else.
<1>3. ASSUME NEW state, Go(r, state), state.pc \in {"done", "trouble", "record"},
             rec' \in Seq(Recording), Len(rec') >= Len(rec)
      PROVE  Typed'
  <2>1. DOMAIN req' = Request /\ \A y \in Request : ReqTyped(y)'
    BY <1>3, GoTyped
  <2> QED BY <1>1, <1>2, <1>3, <2>1, TypedParts
<1>4. CASE StartRecord(r)
  <2>1. rec' = rec
    BY <1>4 DEF StartRecord
  <2>2. PICK state : Go(r, state) /\ state.pc \in {"trouble", "record"}
    BY <1>4 DEF StartRecord
  <2> QED BY <1>0, <1>3, <2>1, <2>2
<1>5. CASE CreateRecording(r)
  <2> DEFINE row == [uuid |-> r, status |-> "processing", url |-> None]
  <2>1. row \in Recording
    BY DEF Recording
  <2>2. rec' = rec \/ rec' = Append(rec, row)
    BY <1>5 DEF CreateRecording
  <2> HIDE DEF row
  <2>3. rec' \in Seq(Recording) /\ Len(rec') >= Len(rec)
    BY <1>0, <2>1, <2>2
  <2>4. PICK state : Go(r, state) /\ state.pc \in {"trouble", "done"}
    BY <1>5 DEF CreateRecording, Done
  <2> QED BY <1>3, <2>3, <2>4
<1>6. CASE FindRecording(r) \/ FindLatest(r)
  <2>1. rec' = rec
    BY <1>6 DEF FindRecording, FindLatest
  <2>2. CASE Go(r, Done)
    BY <1>0, <1>3, <2>1, <2>2 DEF Done
  <2>3. ASSUME NEW pc \in {"stop", "blame"}, rec # <<>>, Go(r, [pc |-> pc, id |-> Len(rec)])
        PROVE  Typed'
    <3> DEFINE state == [pc |-> pc, id |-> Len(rec)]
    <3>1. Len(rec) \in 1 .. Len(rec)
      BY <1>0, <2>3
    <3>2. state.pc = pc /\ (pc = "stop" => state \in Stopping) /\ (pc = "blame" => state \in Blaming)
      BY <3>1 DEF Stopping, Blaming
    <3>3. Go(r, state)
      BY <2>3
    <3> HIDE DEF state
    <3>4. DOMAIN req' = Request /\ \A y \in Request : ReqTyped(y)'
      BY <1>0, <2>1, <2>3, <3>2, <3>3, GoTyped
    <3> QED BY <1>0, <1>1, <1>2, <2>1, <3>4, TypedParts
  <2> QED BY <1>6, <2>2, <2>3 DEF FindRecording, FindLatest
<1>7. CASE StopRecord(r)
  <2>1. rec' = rec
    BY <1>7 DEF StopRecord
  <2>2. CASE Go(r, [pc |-> "trouble", start |-> FALSE])
    BY <1>0, <1>3, <2>1, <2>2
  <2>3. CASE req' = [req EXCEPT ![r].pc = "store"]
    <3> DEFINE state == [req[r] EXCEPT !.pc = "store"]
    <3>1. req[r] \in Stopping
      BY <1>7 DEF StopRecord, At, ReqTyped
    <3>2. state \in Stopping /\ state.pc = "store"
      BY <3>1 DEF Stopping
    <3>3. Go(r, state)
      BY <2>3 DEF Go
    <3> HIDE DEF state
    <3>4. DOMAIN req' = Request /\ \A y \in Request : ReqTyped(y)'
      BY <1>0, <2>1, <3>2, <3>3, GoTyped
    <3> QED BY <1>0, <1>1, <1>2, <2>1, <3>4, TypedParts
  <2> QED BY <1>7, <2>2, <2>3 DEF StopRecord
<1>8. CASE StoreRecording(r)
  <2>1. CASE rec' = rec /\ Go(r, [pc |-> "trouble", start |-> FALSE])
    BY <1>0, <1>3, <2>1
  <2>2. CASE /\ Go(r, Done)
             /\ rec' = [rec EXCEPT ![req[r].id].status = "success", ![req[r].id].url = rec[req[r].id].uuid]
    <3> DEFINE i == req[r].id
               row == [rec[i] EXCEPT !.status = "success", !.url = rec[i].uuid]
    <3>1. req[r] \in Stopping
      BY <1>8 DEF StoreRecording, Store, At, ReqTyped
    <3>2. i \in 1 .. Len(rec) /\ rec[i] \in Recording
      BY <1>0, <3>1 DEF Stopping
    <3>3. row \in Recording
      BY <3>2 DEF Recording
    <3>4. rec' = [rec EXCEPT ![i] = row]
      BY <2>2
    <3> HIDE DEF i, row
    <3>5. rec' \in Seq(Recording) /\ Len(rec') = Len(rec)
      BY <1>0, <3>2, <3>3, <3>4
    <3> QED BY <1>0, <1>3, <2>2, <3>5 DEF Done
  <2> QED BY <1>8, <2>1, <2>2 DEF StoreRecording, Store
<1>9. CASE MarkFailed(r)
  <2> DEFINE i == req[r].id
             row == [rec[i] EXCEPT !.status = "failed"]
  <2>1. req[r] \in Blaming
    BY <1>9 DEF MarkFailed, At, ReqTyped
  <2>2. i \in 1 .. Len(rec) /\ rec[i] \in Recording
    BY <1>0, <2>1 DEF Blaming
  <2>3. row \in Recording
    BY <2>2 DEF Recording
  <2>4. rec' = [rec EXCEPT ![i] = row] /\ Go(r, Done)
    BY <1>9 DEF MarkFailed
  <2> HIDE DEF i, row
  <2>5. rec' \in Seq(Recording) /\ Len(rec') = Len(rec)
    BY <1>0, <2>2, <2>3, <2>4
  <2> QED BY <1>0, <1>3, <2>4, <2>5 DEF Done
<1> QED BY <1>4, <1>5, <1>6, <1>7, <1>8, <1>9 DEF RecordingStep

LEMMA TypeNext == Typed /\ [Next]_vars => Typed'
<1> SUFFICES ASSUME Typed, [Next]_vars PROVE Typed'
  OBVIOUS
<1>1. CASE UNCHANGED vars
  BY <1>1 DEF vars, diskVars, recVars, Typed, TypeOK, ReqTyped, Placing, Writing, Removing,
     Stopping, Blaming
<1> QED BY <1>1, RowStepTyped, RecordingStepTyped DEF Next

\* Every variable of StoredFiles keeps its type, and a removed row does not come back,
\* whatever updates of it are still under way (WriteRow fails).
THEOREM StoredFilesTyped == Spec => []TypeOK
<1>1. Typed => TypeOK
  BY DEF Typed
<1> QED BY <1>1, TypeInit, TypeNext, PTL DEF Spec

-----------------------------------------------------------------------------
(* Recordings. *)

\* A recording's own request is over, so it is not started again; one that has been
\* stopped and waits to be stored is not running.
RecInv ==
  /\ Typed /\ RecordingHasItsFile
  /\ \A i \in DOMAIN rec : ~At(rec[i].uuid, "new")
  /\ \A r \in Request : At(r, "store") => rec[req[r].id].uuid \notin running

LEMMA RowStepKeepsRecordings ==
  ASSUME Typed, NEW r \in Request, RowStep(r)
  PROVE  /\ rec' = rec /\ running' = running
         /\ \A x \in Request \ {r} : req'[x] = req[x]
         /\ req' = req \/ req'[r].pc \notin {"new", "store"}
<1> USE DEF Typed, diskVars, recVars
<1>1. rec' = rec /\ running' = running
  BY DEF RowStep, CreateStep, UpdateStep, CreateDepartment, CreateBanner, AddFileContent, CreateUser,
     CreateCourse, CreateLogo, Create, UpdateDepartment, UpdateUser, UpdateCourse, UpdateBanner,
     UpdateLogo, Update, UpdateFileContent, ReadForRemoval, PlaceLogo, InsertLogo, RenameLogo,
     WriteRow, WriteGiven, Write, RemoveRow, EraseOpen, EraseUnlink
<1>2. \A x \in Request \ {r} : req'[x] = req[x]
  BY DEF RowStep, CreateStep, UpdateStep, CreateDepartment, CreateBanner, AddFileContent, CreateUser,
     CreateCourse, CreateLogo, Create, UpdateDepartment, UpdateUser, UpdateCourse, UpdateBanner,
     UpdateLogo, Update, UpdateFileContent, ReadForRemoval, PlaceLogo, InsertLogo, RenameLogo,
     WriteRow, WriteGiven, Write, RemoveRow, EraseOpen, EraseUnlink, Go, Fail
<1>3. req' = req \/ req'[r].pc \notin {"new", "store"}
  <2>1. CASE Fail(r) /\ req[r].pc \in {"insert", "write", "remove"}
    BY <2>1 DEF Fail, ReqTyped, Placing, Writing, Removing
  <2>2. CASE PlaceLogo(r) \/ RenameLogo(r)
    BY <2>2 DEF PlaceLogo, RenameLogo, At, ReqTyped, Placing, Writing
  <2>3. CASE Go(r, Done)
    BY <2>3 DEF Go, Done
  <2>4. CASE CreateStep(r)
    <3>1. ASSUME NEW x \in Row, NEW upload \in BOOLEAN, Create(r, x, upload)
          PROVE  req'[r].pc \notin {"new", "store"}
      <4>1. PICK state : Go(r, state) /\ state.pc \in {"done", "failed"}
        BY <3>1 DEF Create, Done
      <4> QED BY <4>1 DEF Go
    <3>2. ASSUME NEW x \in Row, NEW title \in Title, CreateLogo(r, x, title)
          PROVE  req'[r].pc \notin {"new", "store"}
      <4>1. PICK state : Go(r, state) /\ state.pc \in {"done", "place"}
        BY <3>2 DEF CreateLogo, Done
      <4> QED BY <4>1 DEF Go
    <3> QED BY <2>4, <3>1, <3>2 DEF CreateStep, CreateDepartment, CreateBanner, AddFileContent,
            CreateUser, CreateCourse
  <2>5. ASSUME NEW x \in Row, NEW upload \in BOOLEAN, NEW pc, NEW path, Update(r, x, upload, pc, path),
               pc \in {"write", "rename", "failed"}
        PROVE  req'[r].pc \notin {"new", "store"}
    BY <2>5 DEF Update, Go
  <2>6. CASE UpdateStep(r)
    <3>1. ASSUME NEW x \in Row, NEW upload \in BOOLEAN, NEW title \in Title \cup {None},
                 UpdateLogo(r, x, upload, title)
          PROVE  req'[r].pc \notin {"new", "store"}
      <4>1. Update(r, x, upload, "failed", title) \/ Update(r, x, upload, "rename", title)
        BY <3>1 DEF UpdateLogo
      <4> QED BY <2>5, <4>1
    <3>2. ASSUME NEW x \in Row, UpdateFileContent(r, x) PROVE req'[r].pc \notin {"new", "store"}
      BY <3>2 DEF UpdateFileContent, Go
    <3> QED BY <2>5, <2>6, <3>1, <3>2 DEF UpdateStep, UpdateDepartment, UpdateUser, UpdateCourse,
            UpdateBanner
  <2>7. ASSUME NEW x \in Row, ReadForRemoval(r, x) PROVE req'[r].pc \notin {"new", "store"}
    BY <2>7 DEF ReadForRemoval, Go
  <2> QED BY <2>1, <2>2, <2>3, <2>4, <2>6, <2>7 DEF RowStep, InsertLogo, WriteRow, WriteGiven, Write,
          RemoveRow, EraseOpen, EraseUnlink, At
<1> QED BY <1>1, <1>2, <1>3

LEMMA RecNext == RecInv /\ [Next]_vars => RecInv'
<1> SUFFICES ASSUME RecInv, [Next]_vars PROVE RecInv'
  OBVIOUS
<1>0. /\ Typed' /\ Typed /\ DOMAIN req = Request
      /\ rec \in Seq(Recording) /\ Len(rec) \in Nat /\ DOMAIN rec = 1 .. Len(rec)
      /\ \A i \in DOMAIN rec : rec[i] \in Recording
  BY TypeNext DEF RecInv, Typed, TypeOK
<1> USE DEF diskVars, recVars
\* Recordings and what the recorder does stay; no request goes back to the start, and
\* none comes to have stopped one.
<1>1. ASSUME NEW r \in Request, rec' = rec, running' = running,
             \A x \in Request \ {r} : req'[x] = req[x],
             req' = req \/ req'[r].pc \notin {"new", "store"}
      PROVE  RecInv'
  <2>1. \A x \in Request : (At(x, "new")' => At(x, "new")) /\ (At(x, "store")' => req'[x] = req[x])
    BY <1>1 DEF At
  <2>2. \A i \in DOMAIN rec : rec[i].uuid \in Request
    BY <1>0 DEF Recording
  <2> QED BY <1>0, <1>1, <2>1, <2>2 DEF RecInv, RecordingHasItsFile, At
<1>2. ASSUME NEW r \in Request, RowStep(r) PROVE RecInv'
  BY <1>0, <1>1, <1>2, RowStepKeepsRecordings
<1>3. ASSUME NEW r \in Request, FindRecording(r) \/ FindLatest(r) PROVE RecInv'
  BY <1>0, <1>1, <1>3 DEF FindRecording, FindLatest, Go, Done
<1>4. ASSUME NEW r \in Request, StartRecord(r) PROVE RecInv'
  <2>1. rec' = rec /\ running' \subseteq running \cup {r} /\ At(r, "new")
    BY <1>4 DEF StartRecord
  <2>2. req'[r].pc \in {"record", "trouble"} /\ \A x \in Request \ {r} : req'[x] = req[x]
    BY <1>0, <1>4 DEF StartRecord, Go
  <2>3. \A i \in DOMAIN rec : rec[i].uuid # r /\ rec[i].uuid \in Request
    BY <1>0, <2>1 DEF RecInv, Recording
  <2>4. \A x \in Request : At(x, "store")' =>
           x # r /\ req'[x] = req[x] /\ req[x].id \in DOMAIN rec
    BY <1>0, <2>2 DEF At, Typed, ReqTyped, Stopping
  <2> QED BY <1>0, <2>1, <2>2, <2>3, <2>4 DEF RecInv, RecordingHasItsFile, At
<1>5. ASSUME NEW r \in Request, CreateRecording(r) PROVE RecInv'
  <2> DEFINE row == [uuid |-> r, status |-> "processing", url |-> None]
  <2>1. running' = running /\ At(r, "record")
    BY <1>5 DEF CreateRecording
  <2>2. req'[r].pc \in {"done", "trouble"} /\ \A x \in Request \ {r} : req'[x] = req[x]
    BY <1>0, <1>5 DEF CreateRecording, Go, Done
  <2>3. CASE rec' = rec
    BY <1>1, <2>1, <2>2, <2>3
  <2>4. CASE rec' = Append(rec, row)
    <3>1. row \in Recording /\ row.uuid = r /\ row.url = None
      BY DEF Recording
    <3> HIDE DEF row
    <3>2. /\ DOMAIN rec' = 1 .. Len(rec) + 1 /\ rec'[Len(rec) + 1] = row
          /\ \A i \in 1 .. Len(rec) : rec'[i] = rec[i]
      BY <1>0, <2>4, <3>1
    <3>3. \A i \in DOMAIN rec' : i \in DOMAIN rec \/ rec'[i] = row
      BY <1>0, <3>2
    <3>4. RecordingHasItsFile'
      BY <1>0, <2>1, <3>1, <3>2, <3>3 DEF RecInv, RecordingHasItsFile
    <3>5. (\A i \in DOMAIN rec : ~At(rec[i].uuid, "new"))'
      <4>1. \A x \in Request : At(x, "new")' => At(x, "new")
        BY <2>2 DEF At
      <4>2. \A i \in DOMAIN rec : rec[i].uuid \in Request /\ ~At(rec[i].uuid, "new")
        BY <1>0 DEF Recording, RecInv
      <4>3. ~At(r, "new")'
        BY <2>2 DEF At
      <4> QED BY <1>0, <3>1, <3>2, <3>3, <4>1, <4>2, <4>3 DEF At
    <3>6. \A x \in Request : At(x, "store")' => rec'[req'[x].id].uuid \notin running'
      <4>1. \A x \in Request : At(x, "store")' => req'[x] = req[x] /\ req[x].id \in 1 .. Len(rec)
        BY <1>0, <2>2 DEF At, Typed, ReqTyped, Stopping
      <4>2. \A x \in Request : At(x, "store")' => At(x, "store")
        BY <4>1 DEF At
      <4> QED BY <2>1, <3>2, <4>1, <4>2 DEF RecInv
    <3> QED BY <1>0, <3>4, <3>5, <3>6 DEF RecInv
  <2> QED BY <1>5, <2>3, <2>4 DEF CreateRecording
<1>6. ASSUME NEW r \in Request, StopRecord(r) PROVE RecInv'
  <2> DEFINE uuid == rec[req[r].id].uuid
  <2>1. rec' = rec /\ running' \subseteq running /\ \A x \in Request \ {r} : req'[x] = req[x]
    BY <1>0, <1>6 DEF StopRecord, Go
  <2>2. req[r] \in Stopping
    BY <1>0, <1>6 DEF StopRecord, At, Typed, ReqTyped
  <2>3. \/ req'[r].pc = "store" /\ req'[r].id = req[r].id /\ running' = running \ {uuid}
        \/ req'[r].pc = "trouble"
    BY <1>0, <1>6, <2>2 DEF StopRecord, Go, Stopping
  <2>4. \A i \in DOMAIN rec : rec[i].uuid \in Request
    BY <1>0 DEF Recording
  <2> QED BY <1>0, <2>1, <2>3, <2>4 DEF RecInv, RecordingHasItsFile, At
<1>7. ASSUME NEW r \in Request, NEW i \in DOMAIN rec, NEW row,
             rec' = [rec EXCEPT ![i] = row], row.uuid = rec[i].uuid,
             row.url = rec[i].url \/ (row.url = row.uuid /\ row.uuid \notin running),
             running' = running, Go(r, Done)
      PROVE  RecInv'
  <2>1. DOMAIN rec' = DOMAIN rec /\ \A k \in DOMAIN rec : rec'[k].uuid = rec[k].uuid
    BY <1>0, <1>7
  <2>2. \A k \in DOMAIN rec : k # i => rec'[k] = rec[k]
    BY <1>0, <1>7
  <2>3. rec'[i] = row
    BY <1>0, <1>7
  <2>4. req'[r].pc = "done" /\ \A x \in Request \ {r} : req'[x] = req[x]
    BY <1>0, <1>7 DEF Go, Done
  <2>5. \A x \in Request : At(x, "store")' => req'[x] = req[x] /\ At(x, "store") /\ req[x].id \in DOMAIN rec
    BY <1>0, <2>4 DEF At, Typed, ReqTyped, Stopping
  <2>6. \A k \in DOMAIN rec : rec[k].uuid \in Request
    BY <1>0 DEF Recording
  <2>7. RecordingHasItsFile'
    BY <1>7, <2>1, <2>2, <2>3 DEF RecInv, RecordingHasItsFile
  <2> QED BY <1>0, <1>7, <2>1, <2>4, <2>5, <2>6, <2>7 DEF RecInv, At
<1>8. ASSUME NEW r \in Request, StoreRecording(r) PROVE RecInv'
  <2>1. CASE rec' = rec /\ Go(r, [pc |-> "trouble", start |-> FALSE])
    BY <1>0, <1>1, <1>8, <2>1 DEF StoreRecording, Store, Go
  <2>2. CASE /\ Go(r, Done)
             /\ rec' = [rec EXCEPT ![req[r].id].status = "success", ![req[r].id].url = rec[req[r].id].uuid]
    <3> DEFINE i == req[r].id
               row == [rec[i] EXCEPT !.status = "success", !.url = rec[i].uuid]
    <3>1. i \in DOMAIN rec /\ rec[i].uuid \notin running
      BY <1>0, <1>8 DEF StoreRecording, Store, At, RecInv, Typed, ReqTyped, Stopping
    <3>2. row.uuid = rec[i].uuid /\ row.url = row.uuid
      BY <1>0, <3>1 DEF Recording
    <3>3. rec' = [rec EXCEPT ![i] = row] /\ running' = running
      BY <1>8, <2>2 DEF StoreRecording, Store
    <3> HIDE DEF i, row
    <3> QED BY <1>7, <2>2, <3>1, <3>2, <3>3
  <2> QED BY <1>8, <2>1, <2>2 DEF StoreRecording, Store
<1>9. ASSUME NEW r \in Request, MarkFailed(r) PROVE RecInv'
  <2> DEFINE i == req[r].id
             row == [rec[i] EXCEPT !.status = "failed"]
  <2>1. i \in DOMAIN rec
    BY <1>0, <1>9 DEF MarkFailed, At, Typed, ReqTyped, Blaming
  <2>2. row.uuid = rec[i].uuid /\ row.url = rec[i].url
    BY <1>0, <2>1 DEF Recording
  <2>3. rec' = [rec EXCEPT ![i] = row] /\ running' = running /\ Go(r, Done)
    BY <1>9 DEF MarkFailed
  <2> HIDE DEF i, row
  <2> QED BY <1>7, <2>1, <2>2, <2>3
<1>10. CASE UNCHANGED vars
  BY <1>0, <1>10 DEF vars, RecInv, RecordingHasItsFile, At
<1> QED BY <1>2, <1>3, <1>4, <1>5, <1>6, <1>8, <1>9, <1>10 DEF Next, RecordingStep

\* However many recordings are started, stopped and blamed for errors at once, a
\* recording with a file has its own, which the recorder has finished (stopRecord).
THEOREM RecordingsHaveTheirFiles == Spec => []RecordingHasItsFile
<1>1. Init => RecInv
  BY TypeInit DEF Init, RecInv, RecordingHasItsFile, Fresh, At
<1>2. RecInv => RecordingHasItsFile
  BY DEF RecInv
<1> QED BY <1>1, <1>2, RecNext, PTL DEF Spec

-----------------------------------------------------------------------------
(* Pictures. *)

Plain == Row \ (Banner \cup Logo)
Names == Request \cup First \cup {None}

\* A name that came from no body.
Own(path) == path # None /\ path \notin quoted
USE DEF Own

\* An upload is named, or its file given up, only once its request is done, unless a body
\* gave its name; logos have names of another kind.
Made(path) == path \in Request \ quoted => At(path, "done")

NamesAreMade ==
  /\ \A x \in DOMAIN file : x \in Logo => file[x] \in Title
  /\ \A x \in DOMAIN file : x \notin Logo => file[x] \in Names \cup quoted /\ Made(file[x])
  /\ \A r \in Request : At(r, "write") /\ req[r].row \in Banner
                        => req[r].seen \in Names \cup quoted /\ Made(req[r].seen)
  /\ \A r \in Request : Made(erase[r].path)

\* No other row names a picture, or will through the stale name a banner's update has read.
NamesAreUnique ==
  \A x \in DOMAIN file : x \in Plain /\ Own(file[x]) =>
    /\ \A y \in DOMAIN file : y \notin Logo /\ file[y] = file[x] => y = x
    /\ \A r \in Request : At(r, "write") /\ req[r].row \in Banner => req[r].seen # file[x]

\* Whoever gives up a picture's file is replacing or removing the picture, or failed to.
EraserOwnsRow ==
  \A x \in DOMAIN file : x \in Plain /\ Own(file[x]) =>
    \A r \in Request : erase[r].path = file[x] =>
      req[r].pc \in {"write", "remove", "failed"} /\ req[r].row = x

\* Nothing is given up at the start, or by a request without an upload.
Idle(r) == At(r, "new") \/ (At(r, "write") /\ ~req[r].upload /\ req[r].row \notin Logo)
IdleGivesUpNothing == \A r \in Request : Idle(r) => erase[r].path = None

PictureOnDisk ==
  /\ \A x \in DOMAIN file : x \in Plain /\ Own(file[x]) =>
       file[x] \in disk \/ \E r \in Request : erase[r].path = file[x]
  /\ \A r \in Request : At(r, "write") /\ req[r].row \in Plain /\ req[r].upload
                        => r \in disk \cup quoted

PicInv == Typed /\ NamesAreMade /\ NamesAreUnique /\ EraserOwnsRow /\ IdleGivesUpNothing /\ PictureOnDisk

LEMMA PicInit == Init => PicInv
<1> SUFFICES ASSUME Init PROVE PicInv
  OBVIOUS
<1>1. Typed
  BY TypeInit
<1>2. \A r \in Request : erase[r].path = None /\ req[r].pc = "new" /\ None \notin Request
  BY NamesAreApart DEF Init, Fresh, Path
<1>3. \A x \in DOMAIN file : x \in First /\ file[x] = x /\ x \in disk
  BY DEF Init
<1>4. First \cap Logo = {} /\ First \cap Request = {}
  BY NamesAreApart DEF First
<1>5. NamesAreMade
  BY <1>2, <1>3, <1>4 DEF NamesAreMade, Made, Names, At
<1>6. NamesAreUnique
  BY <1>2, <1>3 DEF NamesAreUnique, At
<1>7. EraserOwnsRow /\ IdleGivesUpNothing
  BY <1>2, <1>3 DEF EraserOwnsRow, IdleGivesUpNothing
<1>8. PictureOnDisk
  BY <1>2, <1>3 DEF PictureOnDisk, At
<1> QED BY <1>1, <1>5, <1>6, <1>7, <1>8 DEF PicInv

LEMMA PicImplies == PicInv => PictureIsThere
  BY DEF PicInv, Typed, TypeOK, EraserOwnsRow, PictureOnDisk, PictureIsThere, Plain

LEMMA KindsAreApart ==
  /\ Logo \cap Banner = {} /\ Logo \cap Plain = {} /\ Banner \cap Plain = {}
  /\ Names \cap Title = {} /\ Request \cap Title = {} /\ None \notin Request \cup Title
  BY NamesAreApart DEF Plain, Names, Path, First

\* The rows stay, and r, which was not done, changes alone.
Steady(r) ==
  /\ file' = file /\ quoted' = quoted /\ ~At(r, "done")
  /\ \A s \in Request \ {r} : req'[s] = req[s] /\ erase'[s].path = erase[s].path

\* It names and gives up nothing.
Quiet(r) ==
  /\ Steady(r) /\ erase'[r].path = erase[r].path
  /\ req'[r].pc # "new"
  /\ req'[r].pc = "write" => req'[r].row \in Logo
  /\ req[r].pc \in {"write", "remove", "failed"} => req'[r].pc = "failed" /\ req'[r].row = req[r].row
  /\ disk \ {r} \subseteq disk'

LEMMA QuietForPictures == ASSUME PicInv, Typed', NEW r \in Request, Quiet(r) PROVE PicInv'
<1> USE KindsAreApart DEF Quiet, Steady
<1>1. \A s \in Request : req[s].pc = "done" => req'[s].pc = "done" /\ s # r
  BY DEF At
<1>2. \A s \in Request : req'[s].pc = "write" =>
        \/ s # r /\ req'[s] = req[s]
        \/ s = r /\ req'[r].row \in Logo
  OBVIOUS
<1>3. \A s \in Request : erase'[s].path = erase[s].path
  OBVIOUS
<1>4. NamesAreMade'
  BY <1>1, <1>2, <1>3 DEF PicInv, NamesAreMade, Made, At
<1>5. NamesAreUnique'
  BY <1>2 DEF PicInv, NamesAreUnique, At
<1>6. EraserOwnsRow'
  <2>1. \A s \in Request : req[s].pc \in {"write", "remove", "failed"} =>
          req'[s].pc \in {"write", "remove", "failed"} /\ req'[s].row = req[s].row
    OBVIOUS
  <2> QED BY <1>3, <2>1 DEF PicInv, EraserOwnsRow
<1>7. IdleGivesUpNothing'
  BY <1>2, <1>3 DEF PicInv, IdleGivesUpNothing, Idle, At
<1>8. PictureOnDisk'
  <2>1. ASSUME NEW x \in DOMAIN file, x \in Plain, Own(file[x]) PROVE file[x] # r
    BY <1>1, <2>1 DEF PicInv, NamesAreMade, Made, At
  <2> QED BY <1>2, <1>3, <2>1 DEF PicInv, PictureOnDisk, At
<1> QED BY <1>4, <1>5, <1>6, <1>7, <1>8 DEF PicInv

\* It reads a row and may give up its file.
Reads(r, x) ==
  /\ Steady(r) /\ x \in DOMAIN file /\ req[r].pc = "new"
  /\ req'[r].row = x /\ req'[r].pc \in {"write", "remove", "failed", "rename"}
  /\ req'[r].pc = "rename" => x \in Logo
  /\ erase'[r].path \in {None, file[x]}
  /\ req'[r].pc = "write" => /\ req'[r].seen = file[x]
                             /\ ~req'[r].upload => erase'[r].path = None
                             /\ req'[r].upload => r \in disk'
  /\ disk \subseteq disk'

LEMMA ReadsForPictures ==
  ASSUME PicInv, Typed', NEW r \in Request, NEW x, Reads(r, x) PROVE PicInv'
<1> USE KindsAreApart DEF Reads, Steady
<1>1. \A s \in Request : req[s].pc = "done" => req'[s].pc = "done"
  OBVIOUS
<1>2. \A s \in Request : s # r => req'[s] = req[s] /\ erase'[s].path = erase[s].path
  OBVIOUS
<1>3. erase[r].path = None
  BY DEF PicInv, IdleGivesUpNothing, Idle, At
<1>4. \A path : Made(path) => Made(path)'
  BY <1>1 DEF Made, At
<1>5. Made(file[x]) /\ Made(None) /\ (x \notin Logo => file[x] \in Names \cup quoted)
  BY DEF PicInv, NamesAreMade, Made
<1>6. NamesAreMade'
  <2>1. \A s \in Request : Made(erase[s].path)
    BY DEF PicInv, NamesAreMade
  <2>2. \A s \in Request : Made(erase[s].path)'
    BY <1>1, <1>2, <1>5, <2>1 DEF Made, At
  <2>3. ASSUME NEW s \in Request, At(s, "write")', req'[s].row \in Banner
        PROVE  req'[s].seen \in Names \cup quoted /\ Made(req[s].seen)'
    <3>1. CASE s = r
      BY <1>1, <1>5, <2>3, <3>1 DEF Made, At
    <3>2. CASE s # r
      BY <1>1, <1>2, <2>3, <3>2 DEF PicInv, NamesAreMade, Made, At
    <3> QED BY <3>1, <3>2
  <2> QED BY <1>4, <2>2, <2>3 DEF PicInv, NamesAreMade, Made, At
<1>7. NamesAreUnique'
  <2>1. ASSUME NEW y \in DOMAIN file, y \in Plain, Own(file[y]),
               NEW s \in Request, req'[s].pc = "write", req'[s].row \in Banner
        PROVE  req'[s].seen # file[y]
    <3>1. CASE s = r
      <4>1. x \in Banner /\ req'[s].seen = file[x] /\ x # y
        BY <2>1, <3>1
      <4>2. file[x] # file[y]
        BY <2>1, <4>1 DEF PicInv, NamesAreUnique
      <4> QED BY <4>1, <4>2
    <3>2. CASE s # r
      BY <1>2, <2>1, <3>2 DEF PicInv, NamesAreUnique, At
    <3> QED BY <3>1, <3>2
  <2>2. \A y \in DOMAIN file : y \in Plain /\ Own(file[y]) =>
          \A z \in DOMAIN file : z \notin Logo /\ file[z] = file[y] => z = y
    BY DEF PicInv, NamesAreUnique
  <2> QED BY <2>1, <2>2 DEF NamesAreUnique, At
<1>8. EraserOwnsRow'
  <2>1. ASSUME NEW y \in DOMAIN file, y \in Plain, Own(file[y]),
               NEW s \in Request, erase'[s].path = file[y]
        PROVE  req'[s].pc \in {"write", "remove", "failed"} /\ req'[s].row = y
    <3>1. CASE s = r
      <4>1. file[y] = file[x] /\ file[y] \in Names /\ file[y] \notin Title
        BY <2>1, <3>1 DEF PicInv, NamesAreMade
      <4>2. x \notin Logo
        BY <4>1 DEF PicInv, NamesAreMade
      <4>3. x = y
        BY <2>1, <4>1, <4>2 DEF PicInv, NamesAreUnique
      <4> QED BY <3>1, <4>2, <4>3
    <3>2. CASE s # r
      BY <1>2, <2>1, <3>2 DEF PicInv, EraserOwnsRow
    <3> QED BY <3>1, <3>2
  <2> QED BY <2>1 DEF EraserOwnsRow
<1>9. IdleGivesUpNothing'
  BY <1>2 DEF PicInv, IdleGivesUpNothing, Idle, At
<1>10. PictureOnDisk'
  BY <1>2, <1>3 DEF PicInv, PictureOnDisk, At
<1> QED BY <1>6, <1>7, <1>8, <1>9, <1>10 DEF PicInv

\* It is done, and has stored a name.
Stores(r, x, path) ==
  /\ Name(x, path) /\ erase' = erase /\ quoted' = quoted /\ disk \subseteq disk'
  /\ ~At(r, "done") /\ req'[r].pc = "done" /\ \A s \in Request \ {r} : req'[s] = req[s]
  /\ x \in Logo => path \in Title
  /\ x \notin Logo => \/ path \in {None, r}
                      \/ x \in DOMAIN file /\ path = file[x]
                      \/ x \in Banner /\ req[r].pc = "write" /\ req[r].row = x /\ path = req[r].seen
  /\ x \in Plain => /\ path = r => r \in disk' \cup quoted
                    /\ path \in {None, r} \/ erase[r].path = None
  /\ req[r].pc \in {"write", "remove", "failed"} => req[r].pc = "write" /\ req[r].row = x

LEMMA StoresForPictures ==
  ASSUME PicInv, Typed', NEW r \in Request, NEW x, NEW path, Stores(r, x, path) PROVE PicInv'
<1> USE KindsAreApart DEF Stores
<1>1. /\ DOMAIN file' = DOMAIN file \cup {x} /\ file'[x] = path
      /\ \A y \in DOMAIN file : y # x => file'[y] = file[y]
  BY DEF Name
<1>2. \A s \in Request : (At(s, "done") => At(s, "done")') /\ ~At(r, "done") /\ At(r, "done")'
  BY DEF At
<1>3. \A s \in Request : At(s, "write")' => s # r /\ req'[s] = req[s] /\ At(s, "write")
  BY DEF At
<1>4. x \notin Logo => path \in Names \cup quoted /\ (path \in Request \ quoted => At(path, "done")')
  BY <1>2 DEF PicInv, NamesAreMade, Made, Names, At
<1>5. NamesAreMade'
  BY <1>1, <1>2, <1>3, <1>4 DEF PicInv, NamesAreMade, Made
\* No row, and nobody who will write one, has the name of the upload.
<1>6. r \notin quoted =>
        /\ \A y \in DOMAIN file : y \notin Logo => file[y] # r
        /\ \A s \in Request : At(s, "write") /\ req[s].row \in Banner => req[s].seen # r
        /\ \A s \in Request : erase[s].path # r
  BY <1>2 DEF PicInv, NamesAreMade, Made
<1>7. NamesAreUnique'
  <2>1. ASSUME NEW y \in DOMAIN file', y \in Plain, Own(file'[y])
        PROVE  /\ \A z \in DOMAIN file' : z \notin Logo /\ file'[z] = file'[y] => z = y
               /\ \A s \in Request : At(s, "write")' /\ req[s].row \in Banner => req[s].seen # file'[y]
    <3>1. CASE y = x
      <4>1. path = r \/ (x \in DOMAIN file /\ path = file[x])
        BY <1>1, <2>1, <3>1
      <4>2. CASE path = r
        BY <1>1, <1>3, <1>6, <2>1, <3>1, <4>2
      <4>3. CASE x \in DOMAIN file /\ path = file[x]
        BY <1>1, <1>3, <2>1, <3>1, <4>3 DEF PicInv, NamesAreUnique
      <4> QED BY <4>1, <4>2, <4>3
    <3>2. CASE y # x
      <4>1. y \in DOMAIN file /\ file'[y] = file[y]
        BY <1>1, <2>1, <3>2
      <4>2. x \notin Logo => path # file[y]
        BY <1>6, <2>1, <3>2, <4>1 DEF PicInv, NamesAreUnique, At
      <4> QED BY <1>1, <1>3, <2>1, <4>1, <4>2 DEF PicInv, NamesAreUnique
    <3> QED BY <3>1, <3>2
  <2> QED BY <1>3, <2>1 DEF NamesAreUnique
<1>8. EraserOwnsRow'
  <2>1. ASSUME NEW y \in DOMAIN file', y \in Plain, Own(file'[y]),
               NEW s \in Request, erase[s].path = file'[y]
        PROVE  s # r /\ req[s].pc \in {"write", "remove", "failed"} /\ req[s].row = y
    <3>1. CASE y = x
      <4>1. x \in DOMAIN file /\ path = file[x] /\ erase[r].path = None
        BY <1>1, <1>6, <2>1, <3>1
      <4> QED BY <1>1, <2>1, <3>1, <4>1 DEF PicInv, EraserOwnsRow
    <3>2. CASE y # x
      BY <1>1, <2>1, <3>2 DEF PicInv, EraserOwnsRow
    <3> QED BY <3>1, <3>2
  <2> QED BY <2>1 DEF EraserOwnsRow
<1>9. IdleGivesUpNothing'
  BY <1>3 DEF PicInv, IdleGivesUpNothing, Idle, At
<1>10. PictureOnDisk'
  <2>1. ASSUME NEW y \in DOMAIN file', y \in Plain, Own(file'[y])
        PROVE  file'[y] \in disk' \/ \E s \in Request : erase[s].path = file'[y]
    BY <1>1, <2>1 DEF PicInv, PictureOnDisk
  <2> QED BY <1>3, <2>1 DEF PicInv, PictureOnDisk
<1> QED BY <1>5, <1>7, <1>8, <1>9, <1>10 DEF PicInv

\* It is done, and has stored a name from the body.
LEMMA GivenForPictures == ASSUME PicInv, Typed', NEW r \in Request, WriteGiven(r) PROVE PicInv'
<1> DEFINE x == req[r].row
<1> USE KindsAreApart
<1>1. PICK path \in Given \cup {None} : Write(r, path) /\ quoted' = quoted \cup {path}
  BY DEF WriteGiven
<1>2. /\ erase' = erase /\ disk' = disk /\ req[r].pc = "write" /\ req'[r].pc = "done"
      /\ x \in Plain /\ x \in DOMAIN file /\ DOMAIN file' = DOMAIN file /\ file'[x] = path
      /\ \A y \in DOMAIN file : y # x => file'[y] = file[y]
      /\ \A s \in Request \ {r} : req'[s] = req[s]
  BY <1>1, NamesAreApart DEF WriteGiven, Write, Name, Go, Done, Present, At, Plain, Row, PicInv, Typed
<1> HIDE DEF x
<1>3. \A y \in DOMAIN file : Own(file[y])' => y # x /\ file'[y] = file[y] /\ Own(file[y])
  BY <1>1, <1>2 DEF Own
<1>4. \A s \in Request : At(s, "write")' => s # r /\ req'[s] = req[s] /\ At(s, "write")
  BY <1>2 DEF At
<1>5. \A name : Made(name) => Made(name)'
  BY <1>1, <1>2 DEF Made, At
<1>6. NamesAreMade'
  BY <1>1, <1>2, <1>4, <1>5 DEF PicInv, NamesAreMade, Made
<1>7. NamesAreUnique'
  <2>1. ASSUME NEW y \in DOMAIN file, y \in Plain, Own(file[y])'
        PROVE  \A z \in DOMAIN file : z \notin Logo /\ file'[z] = file'[y] => z = y
    <3>1. file'[y] # path /\ Own(file[y]) /\ file'[y] = file[y]
      BY <1>1, <1>3, <2>1 DEF Own
    <3> QED BY <1>2, <1>3, <2>1, <3>1 DEF PicInv, NamesAreUnique
  <2> QED BY <1>2, <1>3, <1>4, <2>1 DEF PicInv, NamesAreUnique
<1>8. EraserOwnsRow'
  <2>1. ASSUME NEW y \in DOMAIN file, y \in Plain, Own(file[y])',
               NEW s \in Request, erase[s].path = file'[y]
        PROVE  s # r /\ req[s].pc \in {"write", "remove", "failed"} /\ req[s].row = y
    BY <1>2, <1>3, <2>1 DEF PicInv, EraserOwnsRow, x
  <2> QED BY <1>2, <2>1 DEF EraserOwnsRow
<1>9. IdleGivesUpNothing'
  BY <1>2, <1>4 DEF PicInv, IdleGivesUpNothing, Idle, At
<1>10. PictureOnDisk'
  BY <1>1, <1>2, <1>3, <1>4 DEF PicInv, PictureOnDisk
<1> QED BY <1>6, <1>7, <1>8, <1>9, <1>10 DEF PicInv

LEMMA RemoveForPictures == ASSUME PicInv, Typed', NEW r \in Request, RemoveRow(r) PROVE PicInv'
<1> DEFINE x == req[r].row
<1>0. req[r].pc = "remove" /\ req[r] \in Removing /\ erase' = erase /\ disk' = disk /\ quoted' = quoted
  BY DEF RemoveRow, At, PicInv, Typed, ReqTyped
<1>1. CASE file' = file /\ Fail(r)
  <2>1. req'[r].pc = "failed" /\ req'[r].row = req[r].row /\ \A s \in Request \ {r} : req'[s] = req[s]
    BY <1>0, <1>1 DEF Fail, Removing, PicInv, Typed
  <2> QED BY <1>0, <1>1, <2>1, QuietForPictures DEF Quiet, Steady, At
<1>2. CASE Go(r, Done) /\ file' = [y \in DOMAIN file \ {x} |-> file[y]]
  <2>1. req'[r].pc = "done" /\ \A s \in Request \ {r} : req'[s] = req[s]
    BY <1>2 DEF Go, Done, PicInv, Typed
  <2>2. DOMAIN file' = DOMAIN file \ {x} /\ \A y \in DOMAIN file' : file'[y] = file[y]
    BY <1>2
  <2> HIDE DEF x
  <2>3. \A s \in Request : At(s, "done") => At(s, "done")'
    BY <1>0, <2>1 DEF At
  <2>4. \A s \in Request : At(s, "write")' => s # r /\ req'[s] = req[s] /\ At(s, "write")
    BY <2>1 DEF At
  <2>5. NamesAreMade'
    BY <1>0, <2>2, <2>3, <2>4 DEF PicInv, NamesAreMade, Made
  <2>6. NamesAreUnique'
    BY <1>0, <2>2, <2>4 DEF PicInv, NamesAreUnique
  <2>7. EraserOwnsRow'
    <3>1. ASSUME NEW y \in DOMAIN file', y \in Plain, Own(file'[y]),
                 NEW s \in Request, erase[s].path = file'[y]
          PROVE  s # r /\ req[s].pc \in {"write", "remove", "failed"} /\ req[s].row = y
      BY <2>2, <3>1 DEF PicInv, EraserOwnsRow, x
    <3> QED BY <1>0, <2>1, <3>1 DEF EraserOwnsRow
  <2>8. IdleGivesUpNothing'
    BY <1>0, <2>1, <2>4 DEF PicInv, IdleGivesUpNothing, Idle, At
  <2>9. PictureOnDisk'
    BY <1>0, <2>2, <2>4 DEF PicInv, PictureOnDisk
  <2> QED BY <2>5, <2>6, <2>7, <2>8, <2>9 DEF PicInv
<1> QED BY <1>1, <1>2 DEF RemoveRow

LEMMA EraseForPictures ==
  ASSUME PicInv, Typed', NEW r \in Request, EraseOpen(r) \/ EraseUnlink(r) PROVE PicInv'
<1>1. req' = req /\ file' = file /\ quoted' = quoted /\ disk \ {erase[r].path} \subseteq disk'
  BY DEF EraseOpen, EraseUnlink
<1>2. \A s \in Request : erase'[s].path = erase[s].path
  BY DEF EraseOpen, EraseUnlink, PicInv, Typed, TypeOK
<1>3. NamesAreMade' /\ NamesAreUnique' /\ EraserOwnsRow' /\ IdleGivesUpNothing'
  BY <1>1, <1>2 DEF PicInv, NamesAreMade, Made, NamesAreUnique, EraserOwnsRow, IdleGivesUpNothing, Idle, At
<1>4. PictureOnDisk'
  BY <1>1, <1>2 DEF PicInv, PictureOnDisk, NamesAreMade, Made, At
<1> QED BY <1>3, <1>4 DEF PicInv

LEMMA CreateLogoForPictures ==
  ASSUME PicInv, Typed', NEW r \in Request, NEW x, NEW title \in Title, CreateLogo(r, x, title)
  PROVE  PicInv'
<1> USE KindsAreApart
<1>0. /\ file' = file /\ req[r].pc = "new" /\ disk' = disk \cup {r} /\ DOMAIN req = Request
      /\ erase \in Erasures /\ quoted' = quoted
  BY DEF CreateLogo, At, Upload, PicInv, Typed, TypeOK, Erasures
<1>1. CASE erase' = erase /\ Go(r, [pc |-> "place", row |-> x, path |-> title])
  BY <1>0, <1>1, QuietForPictures DEF Quiet, Steady, At, Go
<1>2. CASE DeleteFile(r, r) /\ Go(r, Done)
  <2>1. /\ req'[r].pc = "done" /\ erase'[r].path = r
        /\ \A s \in Request \ {r} : req'[s] = req[s] /\ erase'[s].path = erase[s].path
    BY <1>0, <1>2 DEF Go, Done, DeleteFile, Erasures
  <2>2. \A s \in Request : At(s, "done") => At(s, "done")'
    BY <1>0, <2>1 DEF At
  <2>3. \A s \in Request : At(s, "write")' => s # r /\ req'[s] = req[s] /\ At(s, "write")
    BY <2>1 DEF At
  <2>4. \A y \in DOMAIN file : Own(file[y]) => file[y] # r
    BY <1>0 DEF PicInv, NamesAreMade, Made, At
  <2>5. NamesAreMade'
    <3>1. \A s \in Request : Made(erase[s].path)'
      BY <1>0, <2>1, <2>2 DEF PicInv, NamesAreMade, Made, At
    <3> QED BY <1>0, <2>2, <2>3, <3>1 DEF PicInv, NamesAreMade, Made
  <2>6. NamesAreUnique'
    BY <1>0, <2>3 DEF PicInv, NamesAreUnique
  <2>7. EraserOwnsRow'
    <3>1. \A y \in DOMAIN file : Own(file[y]) =>
            \A s \in Request : erase'[s].path = file[y] => s # r
      BY <2>1, <2>4
    <3> QED BY <1>0, <2>1, <3>1 DEF PicInv, EraserOwnsRow
  <2>8. IdleGivesUpNothing'
    BY <2>1, <2>3 DEF PicInv, IdleGivesUpNothing, Idle, At
  <2>9. PictureOnDisk'
    <3>1. erase[r].path = None
      BY <1>0 DEF PicInv, IdleGivesUpNothing, Idle, At
    <3> QED BY <1>0, <2>1, <2>3, <3>1 DEF PicInv, PictureOnDisk
  <2> QED BY <2>5, <2>6, <2>7, <2>8, <2>9 DEF PicInv
<1> QED BY <1>1, <1>2 DEF CreateLogo

LEMMA RowStepForPictures == ASSUME PicInv, Typed', NEW r \in Request, RowStep(r) PROVE PicInv'
<1> USE KindsAreApart
<1>0. /\ DOMAIN req = Request /\ erase \in Erasures /\ DOMAIN file \subseteq Row
      /\ \A x \in DOMAIN file : file[x] \in Path \cup {None}
      /\ Row = Plain \cup Banner \cup Logo /\ Department \cup Course \subseteq Plain
      /\ (Content \cup Department \cup User \cup Course) \cap Logo = {}
  BY NamesAreApart DEF PicInv, Typed, TypeOK, Erasures, Plain, Row
<1>1. ASSUME NEW x \in Row \ Logo, NEW upload \in BOOLEAN, Create(r, x, upload) PROVE PicInv'
  <2>1. erase' = erase /\ quoted' = quoted /\ req[r].pc = "new" /\ disk \subseteq disk' /\ (upload => r \in disk')
    BY <1>1 DEF Create, At, Upload
  <2>2. CASE UNCHANGED file /\ Go(r, [pc |-> "failed", row |-> x])
    BY <1>0, <2>1, <2>2, QuietForPictures DEF Quiet, Steady, At, Go
  <2>3. CASE Name(x, IF upload THEN r ELSE None) /\ Go(r, Done)
    <3> DEFINE path == IF upload THEN r ELSE None
    <3>1. path \in {None, r} /\ (path = r => r \in disk') /\ Name(x, path)
      BY <2>1, <2>3
    <3> HIDE DEF path
    <3>2. Stores(r, x, path)
      BY <1>0, <1>1, <2>1, <2>3, <3>1 DEF Stores, At, Go, Done
    <3> QED BY <3>2, StoresForPictures
  <2> QED BY <1>1, <2>2, <2>3 DEF Create
<1>2. CASE CreateStep(r)
  BY <1>0, <1>1, <1>2, CreateLogoForPictures, NamesAreApart
     DEF CreateStep, CreateDepartment, CreateBanner, AddFileContent, CreateUser, CreateCourse
<1>3. ASSUME NEW x \in Row, NEW upload \in BOOLEAN, NEW pc, NEW path, Update(r, x, upload, pc, path),
             pc \in {"write", "rename", "failed"}, pc = "rename" => x \in Logo
      PROVE  PicInv'
  <2>1. /\ req[r].pc = "new" /\ x \in DOMAIN file /\ file' = file /\ disk \subseteq disk'
        /\ (upload => r \in disk') /\ quoted' = quoted
    BY <1>3 DEF Update, At, Present, Upload
  <2>2. /\ req'[r].row = x /\ req'[r].seen = file[x] /\ req'[r].upload = upload
        /\ req'[r].pc = IF upload THEN pc ELSE "write"
        /\ \A s \in Request \ {r} : req'[s] = req[s]
    BY <1>0, <1>3 DEF Update, Go
  <2>3. erase[r].path = None
    BY <2>1 DEF PicInv, IdleGivesUpNothing, Idle, At
  <2>4. /\ erase'[r].path \in {None, file[x]} /\ (~upload => erase'[r].path = None)
        /\ \A s \in Request \ {r} : erase'[s].path = erase[s].path
    BY <1>0, <1>3, <2>3 DEF Update, DeleteFile, Erasures
  <2>5. Reads(r, x)
    BY <1>3, <2>1, <2>2, <2>4 DEF Reads, Steady, At
  <2> QED BY <2>5, ReadsForPictures
<1>4. ASSUME NEW x \in Row, UpdateFileContent(r, x) PROVE PicInv'
  <2>1. /\ req[r].pc = "new" /\ x \in DOMAIN file /\ file' = file /\ disk \subseteq disk' /\ r \in disk'
        /\ erase' = erase /\ quoted' = quoted
    BY <1>4 DEF UpdateFileContent, At, Present, Upload
  <2>2. /\ req'[r].row = x /\ req'[r].seen = file[x] /\ req'[r].upload = TRUE /\ req'[r].pc = "write"
        /\ \A s \in Request \ {r} : req'[s] = req[s]
    BY <1>0, <1>4 DEF UpdateFileContent, Go
  <2>3. erase[r].path = None
    BY <2>1 DEF PicInv, IdleGivesUpNothing, Idle, At
  <2>4. Reads(r, x)
    BY <2>1, <2>2, <2>3 DEF Reads, Steady, At
  <2> QED BY <2>4, ReadsForPictures
<1>5. ASSUME NEW x \in Row, ReadForRemoval(r, x) PROVE PicInv'
  <2>1. req[r].pc = "new" /\ x \in DOMAIN file /\ file' = file /\ disk' = disk /\ quoted' = quoted
    BY <1>5 DEF ReadForRemoval, At, Present
  <2>2. /\ req'[r].row = x /\ req'[r].pc = "remove"
        /\ \A s \in Request \ {r} : req'[s] = req[s]
    BY <1>0, <1>5 DEF ReadForRemoval, Go
  <2>3. erase[r].path = None
    BY <2>1 DEF PicInv, IdleGivesUpNothing, Idle, At
  <2>4. /\ erase'[r].path \in {None, file[x]}
        /\ \A s \in Request \ {r} : erase'[s].path = erase[s].path
    BY <1>0, <1>5, <2>3 DEF ReadForRemoval, DeleteFile, Erasures
  <2>5. Reads(r, x)
    BY <2>1, <2>2, <2>4 DEF Reads, Steady, At
  <2> QED BY <2>5, ReadsForPictures
<1>6. CASE UpdateStep(r)
  <2>1. ASSUME NEW x \in Row, NEW upload \in BOOLEAN, NEW title \in Title \cup {None},
               UpdateLogo(r, x, upload, title)
        PROVE  PicInv'
    <3>1. \/ Update(r, x, upload, "failed", title)
          \/ Update(r, x, upload, "rename", title) /\ x \in Logo
      BY <2>1 DEF UpdateLogo
    <3> QED BY <1>3, <3>1
  <2> QED BY <1>3, <1>4, <1>6, <2>1 DEF UpdateStep, UpdateDepartment, UpdateUser, UpdateCourse,
          UpdateBanner
<1>7. CASE PlaceLogo(r) \/ RenameLogo(r)
  <2>1. /\ req[r] \in Placing \cup Writing /\ req[r].pc \in {"place", "rename"} /\ erase' = erase
        /\ file' = file /\ quoted' = quoted /\ disk \ {r} \subseteq disk'
        /\ req[r].pc = "rename" => req[r].row \in Logo /\ req[r] \in Writing
    BY <1>7 DEF PlaceLogo, RenameLogo, RenameFile, At, PicInv, Typed, ReqTyped
  <2>2. /\ req'[r].pc \in {"insert", "write"} /\ (req'[r].pc = "write" => req[r].pc = "rename")
        /\ req'[r].row = req[r].row
        /\ \A s \in Request \ {r} : req'[s] = req[s]
    BY <1>0, <1>7, <2>1 DEF PlaceLogo, RenameLogo, At, Placing, Writing
  <2> QED BY <2>1, <2>2, QuietForPictures DEF Quiet, Steady, At
<1>8. CASE InsertLogo(r) \/ WriteRow(r)
  <2>1. /\ erase' = erase /\ disk' = disk /\ quoted' = quoted /\ req[r].pc \in {"insert", "write"}
        /\ req[r] \in Placing \cup Writing /\ (req[r].pc = "insert" => req[r] \in Placing)
        /\ req[r].pc = "write" => ReqTyped(r) /\ req[r] \in Writing
    BY <1>8 DEF InsertLogo, WriteRow, At, PicInv, Typed, ReqTyped
  <2>2. CASE file' = file /\ Fail(r)
    <3>1. req'[r].pc = "failed" /\ req'[r].row = req[r].row /\ \A s \in Request \ {r} : req'[s] = req[s]
      BY <1>0, <2>1, <2>2 DEF Fail, Placing, Writing
    <3> QED BY <2>1, <2>2, <3>1, QuietForPictures DEF Quiet, Steady, At
  <2>3. CASE InsertLogo(r) /\ Name(req[r].row, req[r].path) /\ Go(r, Done)
    <3>1. req[r].pc = "insert" /\ req[r].row \in Logo /\ req[r].path \in Title
      BY <2>1, <2>3 DEF InsertLogo, At, Placing
    <3>2. Stores(r, req[r].row, req[r].path)
      BY <1>0, <2>1, <2>3, <3>1 DEF Stores, At, Go, Done
    <3> QED BY <3>2, StoresForPictures
  <2>4. CASE WriteRow(r) /\ Write(r, NewName(req[r]))
    <3> DEFINE x == req[r].row
               path == NewName(req[r])
    <3>1. req[r].pc = "write" /\ x \in DOMAIN file /\ Name(x, path)
      BY <2>4 DEF WriteRow, Write, At, Present
    <3>2. CASE req[r].upload
      <4>1. path = req[r].path /\ (x \in Logo => path \in Title) /\ (x \notin Logo => path = r)
        BY <2>1, <3>1, <3>2 DEF NewName, ReqTyped
      <4>2. x \in Plain => r \in disk \cup quoted
        BY <3>1, <3>2 DEF PicInv, PictureOnDisk, At
      <4> HIDE DEF path
      <4>3. Stores(r, x, path)
        BY <1>0, <2>1, <2>4, <3>1, <4>1, <4>2 DEF Stores, WriteRow, Write, At, Go, Done
      <4> QED BY <4>3, StoresForPictures
    <3>3. CASE ~req[r].upload
      <4>1. /\ path = (IF x \in Banner THEN req[r].seen ELSE file[x])
            /\ x \notin Logo => erase[r].path = None
        BY <2>1, <3>1, <3>3 DEF NewName, PicInv, IdleGivesUpNothing, Idle, At
      <4>2. x \in Logo => path \in Title
        BY <3>1, <4>1 DEF PicInv, NamesAreMade
      <4>3. x \in Plain => file[x] # r \/ r \in quoted
        BY <3>1 DEF PicInv, NamesAreMade, Made, At
      <4> HIDE DEF path
      <4>4. Stores(r, x, path)
        BY <1>0, <2>1, <2>4, <3>1, <4>1, <4>2, <4>3 DEF Stores, WriteRow, Write, At, Go, Done
      <4> QED BY <4>4, StoresForPictures
    <3> QED BY <3>2, <3>3
  <2> QED BY <1>8, <2>2, <2>3, <2>4 DEF InsertLogo, WriteRow
<1> QED BY <1>2, <1>5, <1>6, <1>7, <1>8, GivenForPictures, RemoveForPictures, EraseForPictures DEF RowStep

LEMMA RecordingStepForPictures ==
  ASSUME PicInv, Typed', NEW r \in Request, RecordingStep(r) PROVE PicInv'
<1>0. DOMAIN req = Request
  BY DEF PicInv, Typed
<1>1. UNCHANGED diskVars
  BY DEF RecordingStep, StartRecord, CreateRecording, FindRecording, StopRecord, StoreRecording,
     Store, FindLatest, MarkFailed
<1>2. req[r].pc \in {"new", "record", "stop", "store", "trouble", "blame"}
  BY DEF RecordingStep, StartRecord, CreateRecording, FindRecording, StopRecord, StoreRecording,
     Store, FindLatest, MarkFailed, At
<1>3. /\ req'[r].pc \in {"record", "trouble", "done", "stop", "store", "blame"}
      /\ \A s \in Request \ {r} : req'[s] = req[s]
  <2>1. CASE StopRecord(r)
    BY <1>0, <2>1 DEF StopRecord, At, Go, PicInv, Typed, ReqTyped, Stopping
  <2>2. CASE ~StopRecord(r)
    BY <1>0, <2>2 DEF RecordingStep, StartRecord, CreateRecording, FindRecording, StoreRecording,
       Store, FindLatest, MarkFailed, Go, Done
  <2> QED BY <2>1, <2>2
<1> QED BY <1>1, <1>2, <1>3, QuietForPictures DEF Quiet, Steady, diskVars, At

LEMMA PicNext == PicInv /\ [Next]_vars => PicInv'
<1> SUFFICES ASSUME PicInv, [Next]_vars PROVE PicInv'
  OBVIOUS
<1>1. Typed'
  BY TypeNext DEF PicInv
<1>2. CASE UNCHANGED vars
  BY <1>1, <1>2 DEF vars, diskVars, PicInv, NamesAreMade, NamesAreUnique, EraserOwnsRow,
     IdleGivesUpNothing, Idle, PictureOnDisk, Made, At
<1> QED BY <1>1, <1>2, RowStepForPictures, RecordingStepForPictures DEF Next

\* However many requests create, replace and remove pictures at once, and whichever of
\* them fail, a department, user, course or course file lacks its file only by a
\* request that is replacing or removing it, or failed to (the update and remove of
\* the four services, StorageHelpers.deleteFile).
THEOREM PicturesAreThere == Spec => []PictureIsThere
<1> QED BY PicInit, PicImplies, PicNext, PTL DEF Spec
=============================================================================
