------------------------------- MODULE Upload -------------------------------
(***************************************************************************)
(* Uploading files from a tab of the Desk: the batches of upload.js, the   *)
(* SocketIOUploader of socketio_client.js, which sends one file at a time  *)
(* in slices, the node server that puts the slices together (socketio.js), *)
(* and uploadfile(), which makes the File rows (utils/file_manager.py).    *)
(*                                                                         *)
(* A file of up to 24576 bytes is sent with the HTTP request; a bigger one *)
(* is two slices here.  The content of a file is the file itself, so no    *)
(* two have the same; what is on the disk is the sequence of the slices    *)
(* written.  All are private, as the dialog has them, and go to one        *)
(* document.                                                               *)
(***************************************************************************)
EXTENDS Naturals, Sequences

CONSTANTS
    Batches,      \* clicks on "Attach"
    Files,        \* the files selected, each in one batch
    Plan,         \* the sequence of files of each batch
    Big,          \* the files of more than 24576 bytes
    Name,         \* the name of each file
    MaxBreaks,    \* bound: connections lost
    None          \* no file, no upload, no name

ASSUME UploadAssumption ==
    /\ Plan \in [Batches -> Seq(Files)] /\ Name \in [Files -> {Name[f] : f \in Files}]
    /\ \A b \in Batches : Plan[b] # <<>>
    /\ Big \subseteq Files /\ MaxBreaks \in Nat
    /\ None \notin Files \cup {Name[f] : f \in Files}

\* A file that is selected again is another one, with the same name.
ASSUME DistinctAssumption ==
    \A b, c \in Batches : \A i \in DOMAIN Plan[b], j \in DOMAIN Plan[c] :
        Plan[b][i] = Plan[c][j] => b = c /\ i = j

VARIABLES
    next,       \* i of upload_multiple_files(), from 1
    listening,  \* on_upload is bound to upload_complete
    args,       \* opts.args of a batch: filedata and file_url
    tasks,      \* files being read, waiting for their name, or being posted
    reader,     \* uploader.reader: the upload it reads for
    callback,   \* the upload whose callback and fallback the uploader has
    started,    \* uploader.started
    timer,      \* uploader.next_check is pending
    reading,    \* the slices that are being read
    online,     \* the socket is connected
    breaks,     \* connections lost so far
    answers,    \* what node has sent to the tab
    partial,    \* socket.files: the slices of each name
    writes,     \* fs.writeFile() under way
    disk,       \* the files on the disk
    rows,       \* the File rows
    told,       \* history: the batches whose user has been told of an error
    unanswered, \* history: the batches with a request that got no answer
    moved,      \* history: the batches moved on by another one, or which a doubtful
                \* answer of node was taken for
    instead,    \* history: <<file, data>> of a request that got the row of data
    given,      \* history: the names given to uploads
    doubtful,   \* history: an upload has timed out, or sent a slice after it was
                \* dropped, on this connection
    twice       \* history: files attached twice

batch == <<next, listening>>
uploader == <<reader, callback, started, timer, reading>>
node == <<online, breaks, answers, partial, writes, disk>>
server == <<rows, instead, twice>>
history == <<told, unanswered, moved, given, doubtful>>
vars == <<batch, args, tasks, uploader, node, server, history>>

\* A free name is kept, another one gets a timestamp.
Names == {Name[f] : f \in Files} \cup {<<Name[f], f>> : f \in Files}

Slices == Files \X (0..2)

Init ==
    /\ next = [b \in Batches |-> 0] /\ listening = [b \in Batches |-> FALSE]
    /\ args = [b \in Batches |-> [data |-> None, url |-> None]]
    /\ tasks = {}
    /\ reader = None /\ callback = None
    /\ started = FALSE /\ timer = FALSE /\ reading = {}
    /\ online \in BOOLEAN /\ breaks = 0
    /\ answers = <<>>
    /\ partial = [n \in Names |-> <<>>] /\ disk = partial
    /\ writes = {}
    /\ rows = {} /\ instead = {} /\ twice = {}
    /\ told = {} /\ unanswered = {} /\ moved = {} /\ given = {} /\ doubtful = FALSE

-----------------------------------------------------------------------------
(***************************************************************************)
(* upload.js.                                                              *)
(***************************************************************************)
Task(b, f, stage) ==
    [batch |-> b, file |-> f, stage |-> stage, data |-> None, url |-> None, sure |-> TRUE]

\* read_file(): a big file asks for its name first.
ReadFile(b, f) == Task(b, f, IF f \in Big THEN "naming" ELSE "reading")

\* upload_to_server() sends the arguments of the batch as they are.
ToServer(b, f, a, sure) ==
    [batch |-> b, file |-> f, stage |-> "posting", data |-> a.data, url |-> a.url,
     sure |-> sure]

\* upload_next() of the batches bs; others are the tasks that remain.
UploadNext(bs, others) ==
    /\ next' = [b \in Batches |-> IF b \in bs THEN next[b] + 1 ELSE next[b]]
    /\ args' = [b \in Batches |-> IF b \in bs THEN [args[b] EXCEPT !.url = None] ELSE args[b]]
    /\ tasks' = others \cup {ReadFile(b, Plan[b][next[b] + 1]) : b \in bs}

\* The user clicks on "Attach": upload_multiple_files().
Attach(b) ==
    /\ next[b] = 0
    /\ UploadNext({b}, tasks)
    /\ listening' = [listening EXCEPT ![b] = TRUE]
    /\ UNCHANGED <<uploader, node, server, history>>

\* The file has been read as a whole.
ReadWhole(t) ==
    /\ t \in tasks /\ t.stage = "reading"
    /\ args' = [args EXCEPT ![t.batch].data = t.file]
    /\ tasks' = (tasks \ {t}) \cup {ToServer(t.batch, t.file, args'[t.batch], TRUE)}
    /\ UNCHANGED <<batch, uploader, node, server, history>>

\* validate_filename(): the name of no row is free.
ServerName(f) == IF \E r \in rows : r.name = Name[f] THEN <<Name[f], f>> ELSE Name[f]

\* Mutated: a second upload takes the uploader over.
StartOver(t, u) ==
    /\ online
    /\ tasks' = tasks \ {t}
    /\ reader' = u /\ callback' = u /\ started' = FALSE
    /\ reading' = reading \cup {[upload |-> u, slice |-> 0]}
    /\ UNCHANGED <<timer, told>>

\* Mutated: the callback stays that of the first upload.
StartFirst(t, u) ==
    /\ reader = None /\ online
    /\ tasks' = tasks \ {t}
    /\ reader' = u /\ callback' = (IF callback = None THEN u ELSE callback) /\ started' = FALSE
    /\ reading' = reading \cup {[upload |-> u, slice |-> 0]}
    /\ UNCHANGED <<timer, told>>

\* Mutated: nobody is told that another upload is in progress.
StartQuietly(t, u) ==
    IF reader # None
      THEN tasks' = tasks \ {t} /\ UNCHANGED <<uploader, told>>
    ELSE IF ~online
      THEN /\ tasks' = (tasks \ {t}) \cup {Task(t.batch, t.file, "reading")}
           /\ UNCHANGED <<uploader, told>>
    ELSE /\ tasks' = tasks \ {t}
         /\ reader' = u /\ callback' = u /\ started' = FALSE
         /\ reading' = reading \cup {[upload |-> u, slice |-> 0]}
         /\ UNCHANGED <<timer, told>>

\* start(): "File Upload in Progress", or the fallback, or the first slice.
Start(t, u) ==
    IF reader # None
      THEN /\ tasks' = tasks \ {t}
           /\ told' = told \cup {t.batch}
           /\ UNCHANGED uploader
    ELSE IF ~online
      THEN /\ tasks' = (tasks \ {t}) \cup {Task(t.batch, t.file, "reading")}
           /\ UNCHANGED <<uploader, told>>
    ELSE /\ tasks' = tasks \ {t}
         /\ reader' = u /\ callback' = u /\ started' = FALSE
         /\ reading' = reading \cup {[upload |-> u, slice |-> 0]}
         /\ UNCHANGED <<timer, told>>

Named(t) ==
    /\ t \in tasks /\ t.stage = "naming"
    /\ Start(t, [batch |-> t.batch, file |-> t.file, name |-> ServerName(t.file)])
    /\ given' = given \cup {<<ServerName(t.file), t.file>>}
    /\ UNCHANGED <<batch, args, node, server, unanswered, moved, doubtful>>

\* Mutated: upload_complete is triggered after an error too.
FailedMovesOn(t) ==
    LET b == t.batch IN
    /\ t \in tasks /\ t.stage \in {"naming", "posting"}
    /\ next[b] < Len(Plan[b])
    /\ UploadNext({b}, tasks \ {t})
    /\ told' = told \cup {b}
    /\ UNCHANGED <<listening, uploader, node, server, unanswered, moved, given, doubtful>>

\* validate_filename() or uploadfile() fails: the request shows the error, and
\* the batch stays where it is.
Failed(t) ==
    /\ t \in tasks /\ t.stage \in {"naming", "posting"}
    /\ tasks' = tasks \ {t}
    /\ told' = told \cup {t.batch}
    /\ UNCHANGED <<batch, args, uploader, node, server, unanswered, moved, given, doubtful>>

\* get_file_doc(): filedata goes before file_url.
Row(t) ==
    [batch |-> t.batch, file |-> t.file, data |-> t.data,
     url |-> IF t.data = None THEN t.url ELSE None,
     name |-> IF t.url = None THEN Name[t.file] ELSE t.url, sure |-> t.sure]

\* validate_duplicate_entry(): a row of the document has the content_hash.
\* save_url() has none, and a private file gets none later.
Duplicate(t) == t.data # None /\ \E r \in rows : r.data = t.data

\* uploadfile() makes the row; or answers with the one there is, and no error,
\* though with the message that the file has already been attached.
Save(t) ==
    IF Duplicate(t)
      THEN instead' = instead \cup {<<t.file, t.data>>} /\ UNCHANGED <<rows, twice>>
    ELSE /\ rows' = rows \cup {Row(t)}
         /\ twice' = IF \E r \in rows : r.batch = t.batch /\ r.file = t.file
                       THEN twice \cup {t.file} ELSE twice
         /\ UNCHANGED instead

\* No answer comes: validate_filename() has no error callback, and that of
\* uploadfile() only hides the dialog.  The row may be there all the same.
Unanswered(t) ==
    /\ t \in tasks /\ t.stage \in {"naming", "posting"}
    /\ tasks' = tasks \ {t}
    /\ (t.stage = "posting" /\ Save(t)) \/ UNCHANGED server
    /\ unanswered' = unanswered \cup {t.batch}
    /\ UNCHANGED <<batch, args, uploader, node, told, moved, given, doubtful>>

\* uploadfile() has answered: upload_complete is triggered for every batch that
\* listens.
Posted(t) ==
    LET done == {b \in Batches : listening[b] /\ next[b] = Len(Plan[b])}
        going == {b \in Batches : listening[b]} \ done
    IN
    /\ t \in tasks /\ t.stage = "posting"
    /\ Save(t)
    /\ listening' = [b \in Batches |-> listening[b] /\ b \notin done]
    /\ UploadNext(going, tasks \ {t})
    /\ moved' = moved \cup ((going \cup done) \ {t.batch})
    /\ UNCHANGED <<uploader, node, told, unanswered, given, doubtful>>

-----------------------------------------------------------------------------
(***************************************************************************)
(* The uploader.                                                           *)
(***************************************************************************)

\* Mutated: the user is told only when the upload has not begun.
DropSilently ==
    /\ reader' = None
    /\ told' = IF reader = None \/ started THEN told ELSE told \cup {reader.batch}

\* disconnect(): the user is told.
Drop == reader' = None /\ told' = IF reader = None THEN told ELSE told \cup {reader.batch}

Idle(u) == \A r \in reading : r.upload # u

\* Node has got a slice of the file of this name.
Accept(n, slice) ==
    /\ partial' = [partial EXCEPT ![n] = Append(@, slice)]
    /\ IF Len(partial[n]) + 1 >= 2
         THEN /\ writes' = writes \cup {[name |-> n, content |-> partial'[n], live |-> TRUE]}
              /\ UNCHANGED answers
         ELSE /\ answers' = Append(answers, [kind |-> "slice", slice |-> 1, name |-> n])
              /\ UNCHANGED writes

\* this.reader.result: when another upload has taken the uploader, what is sent
\* under this name is whatever that one has read, <<>> here.
Result(r) == IF reader = r.upload THEN <<r.upload.file, r.slice>> ELSE <<>>

\* Mutated: the timer starts with the answer of node.
SendUntimed(r) ==
    /\ r \in reading /\ reader # None
    /\ reading' = reading \ {r}
    /\ Accept(r.upload.name, Result(r))
    /\ doubtful' = (doubtful \/ reader # r.upload)
    /\ UNCHANGED <<batch, args, tasks, reader, callback, started, timer, online, breaks,
                   disk, server, told, unanswered, moved, given>>

\* reader.onload: the slice is sent, unless the upload has been dropped.
Send(r) ==
    /\ r \in reading /\ reader # None
    /\ reading' = reading \ {r}
    /\ timer' = TRUE
    /\ Accept(r.upload.name, Result(r))
    /\ doubtful' = (doubtful \/ reader # r.upload)
    /\ UNCHANGED <<batch, args, tasks, reader, callback, started, online, breaks, disk,
                   server, told, unanswered, moved, given>>

\* this.reader is null: the handler throws.
SendNothing(r) ==
    /\ r \in reading /\ reader = None
    /\ reading' = reading \ {r}
    /\ UNCHANGED <<batch, args, tasks, reader, callback, started, timer, node, server,
                   history>>

NextAnswer(kind) == answers # <<>> /\ Head(answers).kind = kind

\* Mutated: the upload is not marked as started.
RequestUnmarked ==
    /\ NextAnswer("slice")
    /\ answers' = Tail(answers)
    /\ IF reader = None \/ ~Idle(reader) THEN UNCHANGED <<reading, timer>>
       ELSE /\ reading' = reading \cup {[upload |-> reader, slice |-> Head(answers).slice]}
            /\ timer' = TRUE
    /\ UNCHANGED <<batch, args, tasks, reader, callback, started, online, breaks,
                   partial, writes, disk, server, history>>

\* upload-request-slice, for whatever upload there is; the handler throws when
\* there is none or when the reader is reading.
RequestSlice ==
    /\ NextAnswer("slice")
    /\ answers' = Tail(answers)
    /\ IF reader = None \/ ~Idle(reader) THEN UNCHANGED <<reading, started, timer>>
       ELSE /\ reading' = reading \cup {[upload |-> reader, slice |-> Head(answers).slice]}
            /\ started' = TRUE /\ timer' = TRUE
    /\ UNCHANGED <<batch, args, tasks, reader, callback, online, breaks, partial,
                   writes, disk, server, history>>

\* upload-end, with the callback of the upload that was started last.
UploadEnd ==
    LET u == callback IN
    /\ NextAnswer("end")
    /\ answers' = Tail(answers)
    /\ reader' = None
    /\ args' = [args EXCEPT ![u.batch].url = Head(answers).name]
    /\ tasks' = tasks \cup {ToServer(u.batch, u.file, args'[u.batch], ~doubtful)}
    /\ moved' = IF doubtful THEN moved \cup {u.batch} ELSE moved
    /\ UNCHANGED <<batch, callback, started, timer, reading, online, breaks, partial, writes,
                   disk, server, told, unanswered, given, doubtful>>

\* 3 seconds after keep_alive(): an upload that node has not answered goes on
\* without the socket.
KeepAlive ==
    /\ timer
    /\ timer' = FALSE
    /\ tasks' = IF started THEN tasks
                ELSE tasks \cup {Task(callback.batch, callback.file, "reading")}
    /\ Drop
    /\ doubtful' = (doubtful \/ reader # None)
    /\ UNCHANGED <<batch, args, callback, started, reading, node, server, unanswered,
                   moved, given>>

-----------------------------------------------------------------------------
(***************************************************************************)
(* Node.                                                                   *)
(***************************************************************************)

\* The connection breaks: socket.files is deleted and the uploader is told.
Break ==
    /\ online' = FALSE /\ answers' = <<>>
    /\ partial' = [n \in Names |-> <<>>]
    /\ Drop
    /\ doubtful' = FALSE

\* fs.writeFile() ends well or not.
Written(w, well) ==
    /\ w \in writes /\ w.live
    /\ writes' = writes \ {w}
    /\ partial' = [partial EXCEPT ![w.name] = <<>>]
    /\ disk' = IF well THEN [disk EXCEPT ![w.name] = w.content] ELSE disk
    /\ answers' = IF well THEN Append(answers, [kind |-> "end", slice |-> 0, name |-> w.name])
                          ELSE answers
    /\ UNCHANGED <<batch, args, tasks, uploader, online, breaks, server, history>>

\* Its socket has gone: there is no socket.files to delete from, and node stops
\* with an exception.
WrittenTooLate(w) ==
    /\ w \in writes /\ ~w.live
    /\ disk' = [disk EXCEPT ![w.name] = w.content]
    /\ Break
    /\ writes' = {[x EXCEPT !.live = FALSE] : x \in writes \ {w}}
    /\ UNCHANGED <<batch, args, tasks, callback, started, timer, reading, breaks,
                   server, unanswered, moved, given>>

Disconnect ==
    /\ online /\ breaks < MaxBreaks
    /\ breaks' = breaks + 1
    /\ Break
    /\ writes' = {[x EXCEPT !.live = FALSE] : x \in writes}
    /\ UNCHANGED <<batch, args, tasks, callback, started, timer, reading, disk, server,
                   unanswered, moved, given>>

Connect ==
    /\ ~online
    /\ online' = TRUE
    /\ UNCHANGED <<batch, args, tasks, uploader, breaks, answers, partial, writes, disk,
                   server, history>>

-----------------------------------------------------------------------------
\* What the browser and the servers do on their own.
Progress ==
    \/ \E t \in tasks : ReadWhole(t) \/ Named(t) \/ Failed(t) \/ Unanswered(t) \/ Posted(t)
    \/ \E r \in reading : Send(r) \/ SendNothing(r)
    \/ RequestSlice \/ UploadEnd \/ KeepAlive
    \/ \E w \in writes : WrittenTooLate(w) \/ \E well \in BOOLEAN : Written(w, well)

Next == (\E b \in Batches : Attach(b)) \/ Progress \/ Disconnect \/ Connect

Spec == Init /\ [][Next]_vars

\* Every callback, answer and timer comes at last.
FairSpec == Spec /\ WF_vars(Progress)

-----------------------------------------------------------------------------
(***************************************************************************)
(* Properties.                                                             *)
(***************************************************************************)
Uploads == [batch : Batches, file : Files, name : Names]
Content == Seq(Slices \cup {<<>>})
NoneOr(S) == S \cup {None}

ASSUME NoneAssumption == None \notin Uploads \cup Names

\* The types; a timer never runs without an upload to fall back on, and the
\* reader is the one whose callback the uploader has.
TypeOK ==
    /\ \A b \in Batches : next[b] \in 0..Len(Plan[b])
    /\ listening \in [Batches -> BOOLEAN]
    /\ args \in [Batches -> [data : NoneOr(Files), url : NoneOr(Names)]]
    /\ tasks \subseteq [batch : Batches, file : Files, stage : {"naming", "reading", "posting"},
                        data : NoneOr(Files), url : NoneOr(Names), sure : BOOLEAN]
    /\ reader \in {None, callback} /\ callback \in NoneOr(Uploads)
    /\ started \in BOOLEAN /\ timer \in BOOLEAN /\ (timer => callback # None)
    /\ reading \subseteq [upload : Uploads, slice : 0..2]
    /\ online \in BOOLEAN /\ breaks \in 0..MaxBreaks
    /\ \A i \in DOMAIN answers :
           answers[i] \in [kind : {"slice", "end"}, slice : 0..1, name : Names]
    /\ \A n \in Names : partial[n] \in Content /\ disk[n] \in Content
    /\ \A w \in writes : w.name \in Names /\ w.content \in Content /\ w.live \in BOOLEAN
    /\ \A r \in rows : r.file \in Files /\ r.name \in Names
    /\ instead \subseteq Files \X Files /\ twice \subseteq Files
    /\ told \subseteq Batches /\ unanswered \subseteq Batches /\ moved \subseteq Batches
    /\ doubtful \in BOOLEAN

Whole(f) == <<<<f, 0>>, <<f, 1>>>>

\* The name was given to one file only.
OwnName(r) == \A g \in given : g[1] = r.url => g[2] = r.file

\* A big file has got the filedata of one before it in its batch, or of any one
\* of a batch that another one, or a late answer, has moved on.
Carried(r) ==
    LET plan == Plan[r.batch] IN
    /\ r.file \in Big
    /\ \E i, j \in DOMAIN plan :
          /\ plan[i] = r.data /\ plan[j] = r.file
          /\ i < j \/ r.batch \in moved

\* A File row has the content of its file: slices of two uploads are not mixed
\* and the answer for one is not taken for another, as long as no upload has
\* timed out or lagged behind on this connection and validate_filename() has
\* not given the name twice.  The exception is a big file sent after another
\* one of its batch: the arguments still have the filedata of that one, and
\* get_file_doc() prefers it.
ContentIsKept ==
    \A r \in rows :
       \/ r.data = r.file \/ Carried(r)
       \/ r.data = None /\ (r.sure /\ OwnName(r) => disk[r.url] = Whole(r.file))

\* The fallback does not attach a file that the socket has attached too, but
\* for the late answer to an upload that timed out.
AttachedOnce == \A f \in twice : \E r \in rows : r.file = f /\ ~r.sure

\* The request of a file has got the row of one before it in its batch.
Replaced(b, i) ==
    /\ Plan[b][i] \in Big
    /\ \E j \in 1..(i - 1) :
          /\ <<Plan[b][i], Plan[b][j]>> \in instead
          /\ \E r \in rows : r.data = Plan[b][j]

\* The files of a batch that it has done with.
Done(b) == IF listening[b] THEN 1..(next[b] - 1) ELSE 1..next[b]

\* A batch leaves no file behind without its row, nor does it end without that of
\* the last: it waits for upload_complete.  That may be the one of another batch
\* or come from a late answer; and it comes too for a big file that was sent with
\* the filedata of an earlier one of its batch: the server finds that content
\* attached and answers with its row.
NoneIsSkipped ==
    \A b \in Batches \ moved : \A i \in Done(b) :
       (\E r \in rows : r.file = Plan[b][i]) \/ Replaced(b, i)

\* What frees the uploader: the first slice is being read, and keep_alive()
\* follows, or the timer runs.
Timed == timer \/ \E r \in reading : r.upload = reader

\* A batch that waits for upload_complete has something to wait for, or its user
\* has been told: one of its files is under way, or in the uploader, and then
\* with what ends an upload that node does not answer; whatever the timer, the
\* lost connections and the other batches have done to it.  The exception is a
\* request that got no answer: nobody is told, and the batch listens for ever.
BatchGoesOn ==
    \A b \in Batches : listening[b] =>
       \/ b \in told \cup unanswered
       \/ \E t \in tasks : t.batch = b
       \/ reader # None /\ reader.batch = b /\ Timed

\* Whatever node does, the uploader does not stay "in progress": the timer or
\* the lost connection frees it.
UploaderIsFreed == reader # None ~> reader = None

\* A batch comes to its end or the user has been told that something is wrong,
\* unless a request of it has got no answer.
Settles == \A b \in Batches : next[b] > 0 ~> ~listening[b] \/ b \in told \cup unanswered

=============================================================================
