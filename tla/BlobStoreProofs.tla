--------------------------- MODULE BlobStoreProofs ---------------------------
(***************************************************************************)
(* What holds of BlobStore for any number of sessions, namespaces and      *)
(* contents, whichever processes die.                                      *)
(***************************************************************************)
EXTENDS BlobStore, TLAPS

(* A session about to insert a row has its file on disk: this is what makes *)
(* RowsHaveFiles inductive.                                                 *)
FileBeforeRow ==
  \A s \in Session :
    /\ req[s].step = "insert" =>
         IF req[s].ns \in Encoded THEN enc[req[s].content] # "absent"
                                  ELSE plain[req[s].content] # "absent"
    /\ req[s].step = "lookup" => plain[req[s].content] # "absent"
    /\ req[s].step \in {"open_enc", "write_enc"} => req[s].ns \in Encoded
    /\ req[s].step \in {"put", "open", "write"} =>
         (req[s].op = "commit" => req[s].ns \notin Encoded)

Inv == TypeOK /\ RowsHaveFiles /\ FileBeforeRow

(* What a session that is not idle has in its request.                      *)
LEMMA RequestFields ==
  ASSUME TypeOK, NEW s \in Session, req[s].step # "idle"
  PROVE  req[s] \in Request
BY DEF TypeOK, Request, Idle

LEMMA InitInv == Init => Inv
BY DEF Init, Inv, TypeOK, RowsHaveFiles, FileBeforeRow, Idle, Row

LEMMA NextInv == Inv /\ [Next]_vars => Inv'
<1> SUFFICES ASSUME Inv, [Next]_vars
             PROVE  Inv'
  OBVIOUS
<1> USE EncodedAssumption DEF Inv, TypeOK, RowsHaveFiles, FileBeforeRow, Request, Step, Idle, At
<1>1. ASSUME NEW s \in Session, NEW op \in {"commit", "import"}, NEW ns \in Namespace,
             NEW c \in Content, Start(s, op, ns, c)
      PROVE  Inv'
  BY <1>1 DEF Start, FirstStep
<1>2. ASSUME NEW s \in Session, Put(s)
      PROVE  Inv'
  <2>1. req[s] \in Request
    BY <1>2, RequestFields DEF Put
  <2> QED BY <1>2, <2>1 DEF Put, Goto, AfterPut
<1>3. ASSUME NEW s \in Session, OpenPlain(s)
      PROVE  Inv'
  <2>1. req[s] \in Request
    BY <1>3, RequestFields DEF OpenPlain
  <2> QED BY <1>3, <2>1 DEF OpenPlain, Goto
<1>4. ASSUME NEW s \in Session, WritePlain(s)
      PROVE  Inv'
  <2>1. req[s] \in Request
    BY <1>4, RequestFields DEF WritePlain
  <2> QED BY <1>4, <2>1 DEF WritePlain, Goto, AfterPut
<1>5. ASSUME NEW s \in Session, RejectImport(s)
      PROVE  Inv'
  <2>1. req[s] \in Request
    BY <1>5, RequestFields DEF RejectImport
  <2> QED BY <1>5, <2>1 DEF RejectImport
<1>6. ASSUME NEW s \in Session, AcceptImport(s)
      PROVE  Inv'
  <2>1. req[s] \in Request
    BY <1>6, RequestFields DEF AcceptImport
  <2> QED BY <1>6, <2>1 DEF AcceptImport, Goto
<1>7. ASSUME NEW s \in Session, OpenEnc(s)
      PROVE  Inv'
  <2>1. req[s] \in Request
    BY <1>7, RequestFields DEF OpenEnc
  <2> QED BY <1>7, <2>1 DEF OpenEnc, Goto
<1>8. ASSUME NEW s \in Session, WriteEnc(s)
      PROVE  Inv'
  <2>1. req[s] \in Request
    BY <1>8, RequestFields DEF WriteEnc
  <2> QED BY <1>8, <2>1 DEF WriteEnc, Goto
<1>9. ASSUME NEW s \in Session, InsertRow(s)
      PROVE  Inv'
  <2>1. req[s] \in Request
    BY <1>9, RequestFields DEF InsertRow
  <2> QED BY <1>9, <2>1 DEF InsertRow, Row
<1>10. ASSUME NEW s \in Session, InsertFails(s)
      PROVE  Inv'
  <2>1. req[s] \in Request
    BY <1>10, RequestFields DEF InsertFails
  <2> QED BY <1>10, <2>1 DEF InsertFails
<1>11. ASSUME NEW s \in Session, Crash(s)
      PROVE  Inv'
  <2>1. req[s] \in Request
    BY <1>11, RequestFields DEF Crash
  <2> QED BY <1>11, <2>1 DEF Crash
<1>12. CASE UNCHANGED vars
  BY <1>12 DEF vars
<1> QED
  BY <1>1, <1>2, <1>3, <1>4, <1>5, <1>6, <1>7, <1>8, <1>9, <1>10, <1>11, <1>12
  DEF Next, Progress

-----------------------------------------------------------------------------
(* A version row never outlives or precedes its file: whichever process     *)
(* dies wherever, commit() and import_version() leave a file on disk for    *)
(* every row they have inserted.                                            *)
THEOREM RowsAlwaysHaveFiles == Spec => [](TypeOK /\ RowsHaveFiles)
<1>1. Inv => TypeOK /\ RowsHaveFiles
  BY DEF Inv
<1> QED BY InitInv, NextInv, <1>1, PTL DEF Spec

-----------------------------------------------------------------------------
(* A file is cut short only between open() and write(), or for good when    *)
(* the writer died there.                                                   *)
Writing(step, c) == \E s \in Session : req[s].step = step /\ req[s].content = c

CutOnlyWhileWritten ==
  \A c \in Content :
    /\ plain[c] = "cut" => Writing("write", c) \/ c \in died
    /\ enc[c] = "cut" => Writing("write_enc", c) \/ c \in died

LEMMA InitCut == Init => CutOnlyWhileWritten
BY DEF Init, CutOnlyWhileWritten

(* A session that moves on leaves the writers of other contents, and other  *)
(* writers of its own, where they are.                                      *)
LEMMA OthersStillWrite ==
  ASSUME TypeOK, NEW s \in Session, NEW r, req' = [req EXCEPT ![s] = r],
         NEW step, NEW c, Writing(step, c),
         ~(req[s].step = step /\ req[s].content = c)
  PROVE  Writing(step, c)'
BY DEF TypeOK, Writing

LEMMA NextCut == Inv /\ CutOnlyWhileWritten /\ [Next]_vars => CutOnlyWhileWritten'
<1> SUFFICES ASSUME Inv, CutOnlyWhileWritten, [Next]_vars
             PROVE  CutOnlyWhileWritten'
  OBVIOUS
<1>t. TypeOK
  BY DEF Inv
<1>1. ASSUME NEW s \in Session, NEW r, req' = [req EXCEPT ![s] = r],
             req[s].step \notin {"write", "write_enc"},
             UNCHANGED <<plain, enc, died>>
      PROVE  CutOnlyWhileWritten'
  BY <1>t, <1>1, OthersStillWrite DEF CutOnlyWhileWritten
<1>2. ASSUME NEW s \in Session, NEW op \in {"commit", "import"}, NEW ns \in Namespace,
             NEW c \in Content, Start(s, op, ns, c)
      PROVE  CutOnlyWhileWritten'
  BY <1>1, <1>2 DEF Start, At
<1>3. ASSUME NEW s \in Session,
             Put(s) \/ RejectImport(s) \/ AcceptImport(s) \/ InsertRow(s) \/ InsertFails(s)
      PROVE  CutOnlyWhileWritten'
  <2>1. req[s].step \notin {"idle", "write", "write_enc"}
    BY <1>3 DEF Put, RejectImport, AcceptImport, InsertRow, InsertFails, At
  <2>2. \E r : req' = [req EXCEPT ![s] = r]
    BY <1>3 DEF Put, RejectImport, AcceptImport, InsertRow, InsertFails, Goto
  <2> QED BY <1>1, <1>3, <2>1, <2>2 DEF Put, RejectImport, AcceptImport, InsertRow, InsertFails
<1>4. ASSUME NEW s \in Session, OpenPlain(s)
      PROVE  CutOnlyWhileWritten'
  <2> DEFINE r == [req[s] EXCEPT !.step = "write"]
  <2>1. req[s] \in Request /\ req[s].step = "open"
    BY <1>t, <1>4, RequestFields DEF OpenPlain, At
  <2>2. req' = [req EXCEPT ![s] = r]
    BY <1>4 DEF OpenPlain, Goto
  <2>3. \A c : c = req[s].content => Writing("write", c)'
    BY <1>t, <2>1, <2>2 DEF TypeOK, Writing, Request
  <2>4. \A step \in {"write", "write_enc"} : \A c : Writing(step, c) => Writing(step, c)'
    BY <1>t, <2>1, <2>2, OthersStillWrite
  <2>5. plain' = [plain EXCEPT ![req[s].content] = "cut"] /\ UNCHANGED <<enc, died>>
    BY <1>4 DEF OpenPlain
  <2>6. \A c \in Content : plain'[c] = "cut" => Writing("write", c)' \/ c \in died'
    BY <1>t, <2>3, <2>4, <2>5 DEF CutOnlyWhileWritten, TypeOK
  <2>7. \A c \in Content : enc'[c] = "cut" => Writing("write_enc", c)' \/ c \in died'
    BY <2>4, <2>5 DEF CutOnlyWhileWritten
  <2> QED BY <2>6, <2>7 DEF CutOnlyWhileWritten
<1>5. ASSUME NEW s \in Session, OpenEnc(s)
      PROVE  CutOnlyWhileWritten'
  <2> DEFINE r == [req[s] EXCEPT !.step = "write_enc"]
  <2>1. req[s] \in Request /\ req[s].step = "open_enc"
    BY <1>t, <1>5, RequestFields DEF OpenEnc, At
  <2>2. req' = [req EXCEPT ![s] = r]
    BY <1>5 DEF OpenEnc, Goto
  <2>3. \A c : c = req[s].content => Writing("write_enc", c)'
    BY <1>t, <2>1, <2>2 DEF TypeOK, Writing, Request
  <2>4. \A step \in {"write", "write_enc"} : \A c : Writing(step, c) => Writing(step, c)'
    BY <1>t, <2>1, <2>2, OthersStillWrite
  <2>5. enc' = [enc EXCEPT ![req[s].content] = "cut"] /\ UNCHANGED <<plain, died>>
    BY <1>5 DEF OpenEnc
  <2>6. \A c \in Content : enc'[c] = "cut" => Writing("write_enc", c)' \/ c \in died'
    BY <1>t, <2>3, <2>4, <2>5 DEF CutOnlyWhileWritten, TypeOK
  <2>7. \A c \in Content : plain'[c] = "cut" => Writing("write", c)' \/ c \in died'
    BY <2>4, <2>5 DEF CutOnlyWhileWritten
  <2> QED BY <2>6, <2>7 DEF CutOnlyWhileWritten
<1>6. ASSUME NEW s \in Session, WritePlain(s)
      PROVE  CutOnlyWhileWritten'
  <2>1. req[s] \in Request /\ req[s].step = "write"
    BY <1>t, <1>6, RequestFields DEF WritePlain, At
  <2>2. \E r : req' = [req EXCEPT ![s] = r]
    BY <1>6 DEF WritePlain, Goto
  <2>3. \A c : Writing("write_enc", c) => Writing("write_enc", c)'
    BY <1>t, <2>1, <2>2, OthersStillWrite
  <2>4. \A c : c # req[s].content => (Writing("write", c) => Writing("write", c)')
    BY <1>t, <2>1, <2>2, OthersStillWrite
  <2> QED BY <1>t, <1>6, <2>1, <2>3, <2>4 DEF WritePlain, CutOnlyWhileWritten, TypeOK, Request
<1>7. ASSUME NEW s \in Session, WriteEnc(s)
      PROVE  CutOnlyWhileWritten'
  <2>1. req[s] \in Request /\ req[s].step = "write_enc"
    BY <1>t, <1>7, RequestFields DEF WriteEnc, At
  <2>2. \E r : req' = [req EXCEPT ![s] = r]
    BY <1>7 DEF WriteEnc, Goto
  <2>3. \A c : Writing("write", c) => Writing("write", c)'
    BY <1>t, <2>1, <2>2, OthersStillWrite
  <2>4. \A c : c # req[s].content => (Writing("write_enc", c) => Writing("write_enc", c)')
    BY <1>t, <2>1, <2>2, OthersStillWrite
  <2>5. req[s].ns # "cut" /\ req[s].ns \in Encoded
    BY <2>1, EncodedAssumption DEF Inv, FileBeforeRow, Request
  <2>6. enc' = [enc EXCEPT ![req[s].content] = req[s].ns] /\ UNCHANGED <<plain, died>>
    BY <1>7 DEF WriteEnc
  <2> QED BY <1>t, <2>1, <2>3, <2>4, <2>5, <2>6 DEF CutOnlyWhileWritten, TypeOK, Request
<1>8. ASSUME NEW s \in Session, Crash(s)
      PROVE  CutOnlyWhileWritten'
  <2>1. req' = [req EXCEPT ![s] = Idle] /\ died' = died \cup {req[s].content}
        /\ UNCHANGED <<plain, enc>>
    BY <1>8 DEF Crash
  <2>2. \A step, c : c # req[s].content => (Writing(step, c) => Writing(step, c)')
    BY <1>t, <2>1, OthersStillWrite
  <2> QED BY <2>1, <2>2 DEF CutOnlyWhileWritten
<1>9. CASE UNCHANGED vars
  BY <1>9 DEF vars, CutOnlyWhileWritten, Writing
<1> QED
  BY <1>2, <1>3, <1>4, <1>5, <1>6, <1>7, <1>8, <1>9 DEF Next, Progress

(* The .enc file of r is written with the key of another namespace.         *)
HeldByOther(r) == r.ns \in Encoded /\ enc[r.content] \in Encoded \ {r.ns}

(* Nothing makes a row unreadable but a writer at work, one that died, and, *)
(* in an encoded namespace only, another key: put() and put_encrypted()     *)
(* leave no other way, for any number of keys.                              *)
ReadableOrKnownWhy ==
  \A r \in rows : Readable(r) \/ BeingWritten(r) \/ r.content \in died \/ HeldByOther(r)

LEMMA KnownWhy == Inv /\ CutOnlyWhileWritten => ReadableOrKnownWhy
<1> SUFFICES ASSUME Inv, CutOnlyWhileWritten, NEW x \in rows
             PROVE  Readable(x) \/ BeingWritten(x) \/ x.content \in died \/ HeldByOther(x)
  BY DEF ReadableOrKnownWhy
<1>1. x.ns \in Namespace /\ x.content \in Content
  BY DEF Inv, TypeOK, Row
<1>2. CASE x.ns \in Encoded
  BY <1>1, <1>2 DEF Inv, TypeOK, RowsHaveFiles, CutOnlyWhileWritten, Writing,
                    Readable, BeingWritten, At, HeldByOther
<1>3. CASE x.ns \notin Encoded
  BY <1>1, <1>3 DEF Inv, TypeOK, RowsHaveFiles, CutOnlyWhileWritten, Writing,
                    Readable, BeingWritten, At
<1> QED BY <1>2, <1>3

(* The files and requests keep their types: in particular an .enc file is   *)
(* only ever written with the key of an encoded namespace.                  *)
THEOREM BlobTypeCorrect == Spec => []TypeOK
<1>1. Inv => TypeOK
  BY DEF Inv
<1> QED BY InitInv, NextInv, <1>1, PTL DEF Spec

(* With any number of keys, a row that cannot be read is being written, or  *)
(* its content was on the hands of a process that died, or another encoded  *)
(* namespace has replaced its file (the run blob_two_keys shows that one).  *)
THEOREM UnreadableRowsAreExplained == Spec => []ReadableOrKnownWhy
BY InitInv, NextInv, InitCut, NextCut, KnownWhy, PTL DEF Spec

(* Where only one namespace has a key, the last of the three cannot happen. *)
THEOREM UnreadableRowsAreBeingWritten ==
  ASSUME \A a, b \in Encoded : a = b
  PROVE  Spec => []UnreadableOnlyWhileWritten
<1>1. ReadableOrKnownWhy => UnreadableOnlyWhileWritten
  BY DEF ReadableOrKnownWhy, HeldByOther, UnreadableOnlyWhileWritten
<1> QED BY UnreadableRowsAreExplained, <1>1, PTL
=============================================================================
