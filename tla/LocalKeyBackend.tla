-------------------------- MODULE LocalKeyBackend ---------------------------
(***************************************************************************)
(* The local key backend.  Nothing is cached: GetEncryptedText, Sign,      *)
(* GetClearText and VerifySignature each load the key file anew, and a     *)
(* load is two file operations, Lstat (type and permissions) and ReadFile. *)
(* The administrator may replace a key file between any two of them.       *)
(***************************************************************************)
EXTENDS SecretRequests

CONSTANT MaxReplacements     \* bound: key files replaced in a behaviour

VARIABLES
    keyFile,                 \* the key directory: what each name leads to
    replacements             \* how many files have been replaced

fileVars == <<keyFile, replacements>>

ASSUME FileAssumption == MaxReplacements \in Nat

\* unsafe: a symbolic link, or open to group or others.
KeyFiles == [kind : {"absent", "unsafe", "safe"}, key : Keys \union {ShortKey}]

InitFiles ==
    /\ keyFile \in [KeyNames -> [kind : {"safe"}, key : Keys]]
    /\ replacements = 0

-----------------------------------------------------------------------------
KeySteps == {"encrypt", "sign", "decrypt", "verify"}

FileOf(r) == keyFile[Item(r).keyName]

\* Mutant: a good key file is inspected over and over.
CheckKeyFileAgain(r) ==
    /\ \E step \in KeySteps : At(r, step, "localkey")
    /\ ~cur[r].checked
    /\ IF FileOf(r).kind = "safe" THEN GoTo(r, pc[r], cur[r]) ELSE Abort(r)
    /\ UNCHANGED disturbed

\* Lstat and the checks on its result; a file that is missing fails it too.
CheckKeyFile(r) ==
    /\ \E step \in KeySteps : At(r, step, "localkey")
    /\ ~cur[r].checked
    /\ IF FileOf(r).kind = "safe"
       THEN GoTo(r, pc[r], [cur[r] EXCEPT !.checked = TRUE])
       ELSE Abort(r)
    /\ UNCHANGED disturbed

\* ReadFile follows once the check has passed; it reads what is there now.
Loading(r, step) == At(r, step, "localkey") /\ cur[r].checked

Readable(r) == FileOf(r).kind # "absent"

\* AES-256-GCM insists on a 32-byte key.
LocalEncrypt(r) ==
    /\ Loading(r, "encrypt")
    /\ IF Readable(r) /\ FileOf(r).key \in Keys
       THEN GoTo(r, "sign", [cur[r] EXCEPT
                !.checked = FALSE,
                !.cipherText = Raw(Seal("localkey", FileOf(r).key,
                                        cur[r].clearText, Nonce(r)))])
       ELSE Abort(r)
    /\ UNCHANGED disturbed

\* Mutant: the text is signed as the client gave it.
LocalSignGiven(r) ==
    /\ Loading(r, "sign")
    /\ IF Readable(r)
       THEN SealItem(r, Seal("localkey", FileOf(r).key, Item(r).clearText, Nonce(r)))
       ELSE Abort(r)
    /\ UNCHANGED disturbed

\* HMAC takes a key of any length.
LocalSign(r) ==
    /\ Loading(r, "sign")
    /\ IF Readable(r)
       THEN SealItem(r, Seal("localkey", FileOf(r).key, cur[r].clearText, Nonce(r)))
       ELSE Abort(r)
    /\ UNCHANGED disturbed

LocalDecrypt(r) ==
    /\ Loading(r, "decrypt")
    /\ LET sent == Item(r).cipherText
       IN  IF /\ Readable(r)
              /\ sent.dir = NoDir
              /\ sent.ct.by = "localkey"
              /\ FileOf(r).key \in Keys
              /\ sent.ct.key = FileOf(r).key
           THEN GoTo(r, "verify", [cur[r] EXCEPT !.checked = FALSE,
                                                 !.clearText = sent.ct.text])
           ELSE Abort(r)
    /\ UNCHANGED disturbed

\* Mutant: a good signature by the right key will do, whatever it signs.
LocalVerifyAnyText(r) ==
    /\ Loading(r, "verify")
    /\ LET signature == Item(r).signature
       IN  IF /\ Readable(r)
              /\ signature.by = "localkey"
              /\ signature.key = FileOf(r).key
           THEN WrapItem(r, cur[r].clearText)
           ELSE Abort(r)
    /\ UNCHANGED disturbed

LocalVerify(r) ==
    /\ Loading(r, "verify")
    /\ LET signature == Item(r).signature
       IN  IF /\ Readable(r)
              /\ signature.by = "localkey"
              /\ signature.key = FileOf(r).key
              /\ signature.text = cur[r].clearText
           THEN WrapItem(r, cur[r].clearText)
           ELSE Abort(r)
    /\ UNCHANGED disturbed

\* Nothing is stored, nothing is deleted.
LocalDelete(r) ==
    /\ At(r, "delete", "localkey")
    /\ FinishItem(r, << >>)
    /\ UNCHANGED disturbed

LocalRequestStep(r) ==
    \/ CheckKeyFile(r)
    \/ LocalEncrypt(r) \/ LocalSign(r)
    \/ LocalDecrypt(r) \/ LocalVerify(r)
    \/ LocalDelete(r)

-----------------------------------------------------------------------------
\* The requests whose current item uses key file k.
Using(k) ==
    {r \in Requests : /\ \E step \in KeySteps : At(r, step, "localkey")
                      /\ Item(r).keyName = k}

\* The administrator replaces, removes or reprotects a key file, at any time.
ReplaceKeyFile(k, file) ==
    /\ replacements < MaxReplacements
    /\ file # keyFile[k]
    /\ keyFile' = [keyFile EXCEPT ![k] = file]
    /\ replacements' = replacements + 1
    /\ disturbed' = disturbed \union Using(k)
=============================================================================
