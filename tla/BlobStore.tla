------------------------------ MODULE BlobStore ------------------------------
(***************************************************************************)
(* Prompt content on disk: services/blob_store.py, driven by the commit    *)
(* and import paths of services/version_store.py, which write the file     *)
(* first and insert the version row afterwards.                            *)
(*                                                                         *)
(* A file is named by the SHA-256 of the plaintext.  write_text() and      *)
(* write_bytes() open the file, which truncates it, and then write: another*)
(* process sees the file in between, and a process that dies there leaves  *)
(* it so.                                                                  *)
(***************************************************************************)
EXTENDS Naturals

CONSTANTS
  Session,    (* processes that have opened the vault                      *)
  Namespace,  (* namespaces; each has an encryption key of its own         *)
  Encoded,    (* those created with encoded = True, for good               *)
  Content     (* plaintexts; one also stands for its SHA-256               *)

ASSUME EncodedAssumption == Encoded \subseteq Namespace /\ {"absent", "cut"} \cap Namespace = {}

VARIABLES
  plain,     (* objects/<sha>: absent, cut short, or whole                 *)
  enc,       (* objects/<sha>.enc: the same, or whose key it is written with*)
  rows,      (* table versions: namespace and content_sha; is_encoded is   *)
             (* whether the namespace is                                   *)
  req,       (* what each session is doing                                 *)
  died       (* history: the contents a process died with on its hands     *)

vars == <<plain, enc, rows, req, died>>

Row == [ns : Namespace, content : Content]

(* A commit puts the content once; an import puts it in the clear to check  *)
(* its hash and then puts it the way the namespace wants.                   *)
Step == {"put", "open", "write", "lookup", "open_enc", "write_enc", "insert"}
Request == [op : {"commit", "import"}, ns : Namespace, content : Content, step : Step]
Idle == [step |-> "idle"]

(* Every file starts absent and no session has begun.                       *)
Init ==
  /\ plain = [c \in Content |-> "absent"]
  /\ enc = [c \in Content |-> "absent"]
  /\ rows = {}
  /\ req = [s \in Session |-> Idle]
  /\ died = {}

Goto(s, step) == req' = [req EXCEPT ![s].step = step]
At(s, step) == req[s].step = step

-----------------------------------------------------------------------------
(* commit() of content c in namespace ns, or import_version() of it.        *)

(* Mutant: commit() inserts the row and leaves the file for later.          *)
FirstStepRowFirst(op, ns) ==
  IF op = "import" THEN "put" ELSE "insert"

FirstStep(op, ns) == IF op = "commit" /\ ns \in Encoded THEN "open_enc" ELSE "put"

Start(s, op, ns, c) ==
  /\ At(s, "idle")
  /\ req' = [req EXCEPT ![s] = [op |-> op, ns |-> ns, content |-> c, step |-> FirstStep(op, ns)]]
  /\ UNCHANGED <<plain, enc, rows, died>>

(* After put() a commit inserts its row; an import looks the SHA up first.  *)
AfterPut(s) == IF req[s].op = "commit" THEN "insert" ELSE "lookup"

(* Mutant: put() also trusts the encrypted file of the same content.        *)
PutUnlessEither(s) ==
  /\ At(s, "put")
  /\ Goto(s, IF plain[req[s].content] = "absent" /\ enc[req[s].content] = "absent"
             THEN "open" ELSE AfterPut(s))
  /\ UNCHANGED <<plain, enc, rows, died>>

(* put(): the file is written only when it does not exist.                  *)
Put(s) ==
  /\ At(s, "put")
  /\ Goto(s, IF plain[req[s].content] = "absent" THEN "open" ELSE AfterPut(s))
  /\ UNCHANGED <<plain, enc, rows, died>>

OpenPlain(s) ==
  /\ At(s, "open")
  /\ plain' = [plain EXCEPT ![req[s].content] = "cut"]
  /\ Goto(s, "write")
  /\ UNCHANGED <<enc, rows, died>>

WritePlain(s) ==
  /\ At(s, "write")
  /\ plain' = [plain EXCEPT ![req[s].content] = "whole"]
  /\ Goto(s, AfterPut(s))
  /\ UNCHANGED <<enc, rows, died>>

(* import_version() raises when the hash does not match and returns when it *)
(* already has the version; otherwise it encrypts for an encoded namespace  *)
(* (elsewhere its second put() finds the file).                             *)
RejectImport(s) ==
  /\ At(s, "lookup")
  /\ req' = [req EXCEPT ![s] = Idle]
  /\ UNCHANGED <<plain, enc, rows, died>>

(* Mutants: an import is never encrypted, or always.                        *)
AcceptImportInClear(s) ==
  /\ At(s, "lookup")
  /\ Goto(s, "insert")
  /\ UNCHANGED <<plain, enc, rows, died>>

AcceptImportEncrypted(s) ==
  /\ At(s, "lookup")
  /\ Goto(s, "open_enc")
  /\ UNCHANGED <<plain, enc, rows, died>>

AcceptImport(s) ==
  /\ At(s, "lookup")
  /\ Goto(s, IF req[s].ns \in Encoded THEN "open_enc" ELSE "insert")
  /\ UNCHANGED <<plain, enc, rows, died>>

(* put_encrypted(): the file is written even when it exists.                *)
OpenEnc(s) ==
  /\ At(s, "open_enc")
  /\ enc' = [enc EXCEPT ![req[s].content] = "cut"]
  /\ Goto(s, "write_enc")
  /\ UNCHANGED <<plain, rows, died>>

WriteEnc(s) ==
  /\ At(s, "write_enc")
  /\ enc' = [enc EXCEPT ![req[s].content] = req[s].ns]
  /\ Goto(s, "insert")
  /\ UNCHANGED <<plain, rows, died>>

InsertRow(s) ==
  /\ At(s, "insert")
  /\ rows' = rows \cup {[ns |-> req[s].ns, content |-> req[s].content]}
  /\ req' = [req EXCEPT ![s] = Idle]
  /\ UNCHANGED <<plain, enc, died>>

(* The transaction fails on a constraint; the file is not taken back.       *)
InsertFails(s) ==
  /\ At(s, "insert")
  /\ req' = [req EXCEPT ![s] = Idle]
  /\ UNCHANGED <<plain, enc, rows, died>>

(* The process dies; what it wrote to disk stays as it is.                  *)
Crash(s) ==
  /\ ~At(s, "idle")
  /\ died' = died \cup {req[s].content}
  /\ req' = [req EXCEPT ![s] = Idle]
  /\ UNCHANGED <<plain, enc, rows>>

Progress(s) ==
  \/ Put(s) \/ OpenPlain(s) \/ WritePlain(s)
  \/ RejectImport(s) \/ AcceptImport(s)
  \/ OpenEnc(s) \/ WriteEnc(s)
  \/ InsertRow(s) \/ InsertFails(s)

Next ==
  \E s \in Session :
    \/ \E op \in {"commit", "import"}, ns \in Namespace, c \in Content : Start(s, op, ns, c)
    \/ Progress(s)
    \/ Crash(s)

Spec == Init /\ [][Next]_vars

(* A process that does not die runs the operation it has begun to its end.  *)
FairSpec == Spec /\ \A s \in Session : WF_vars(Progress(s))

-----------------------------------------------------------------------------
(* Type invariant: a file is absent, cut short or whole (or encrypted with  *)
(* the key of an encoded namespace), a session idle or inside an operation. *)
TypeOK ==
  /\ plain \in [Content -> {"absent", "cut", "whole"}]
  /\ enc \in [Content -> {"absent", "cut"} \cup Encoded]
  /\ rows \subseteq Row
  /\ req \in [Session -> {Idle} \cup Request]
  /\ died \subseteq Content

(* Whether get_version() can return the content of a row.                   *)
Readable(r) ==
  IF r.ns \in Encoded THEN enc[r.content] = r.ns ELSE plain[r.content] = "whole"

(* A row's file is on disk, even when processes die between the file and    *)
(* the row: commit() and import_version() write the blob first, and nothing *)
(* removes one.                                                             *)
RowsHaveFiles ==
  \A r \in rows : IF r.ns \in Encoded THEN enc[r.content] # "absent" ELSE plain[r.content] # "absent"

(* Some session is between opening and writing the file of r.               *)
BeingWritten(r) ==
  \E s \in Session :
    /\ At(s, IF r.ns \in Encoded THEN "write_enc" ELSE "write")
    /\ req[s].content = r.content

(* Unless a process died while it wrote that content, a row is unreadable   *)
(* only while its file is being written, by its own session or by another   *)
(* one that puts the same content at the same time (put() and               *)
(* put_encrypted() truncate first).                                         *)
UnreadableOnlyWhileWritten ==
  \A r \in rows : Readable(r) \/ BeingWritten(r) \/ r.content \in died

(* ... and such a write ends: a row that is there can always be read later. *)
RowsReadableAgain ==
  \A ns \in Namespace, c \in Content :
    [ns |-> ns, content |-> c] \in rows ~>
      Readable([ns |-> ns, content |-> c]) \/ c \in died
=============================================================================
