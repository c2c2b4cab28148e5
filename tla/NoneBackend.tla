---------------------------- MODULE NoneBackend -----------------------------
(***************************************************************************)
(* The none backend, which an administrator may allow for development: the *)
(* "ciphertext" is the text encoded, the "signature" its SHA-256.  It has  *)
(* no state and calls nobody, so an item is one step.                      *)
(***************************************************************************)
EXTENDS SecretRequests

NoneSealOf(text) == Seal("none", NoKey, text, NoNonce)

NoneSeal(r) ==
    /\ At(r, "encrypt", "none")
    /\ FinishItem(r, <<[backend |-> "none", keyName |-> Item(r).keyName,
                        cipherText |-> Raw(NoneSealOf(cur[r].clearText)),
                        signature |-> NoneSealOf(cur[r].clearText)]>>)
    /\ UNCHANGED disturbed

\* Mutant: the hash is compared with that of the decoded text.
NoneRewrapDecoded(r) ==
    /\ At(r, "decrypt", "none")
    /\ LET sent == Item(r).cipherText
       IN  IF /\ sent.dir = NoDir
              /\ sent.ct.by = "none"
              /\ Item(r).signature = NoneSealOf([sent.ct.text EXCEPT !.depth = 0])
           THEN WrapItem(r, sent.ct.text)
           ELSE Abort(r)
    /\ UNCHANGED disturbed

NoneRewrap(r) ==
    /\ At(r, "decrypt", "none")
    /\ LET sent == Item(r).cipherText
       IN  IF /\ sent.dir = NoDir
              /\ sent.ct.by = "none"
              /\ Item(r).signature = NoneSealOf(sent.ct.text)
           THEN WrapItem(r, sent.ct.text)
           ELSE Abort(r)
    /\ UNCHANGED disturbed

NoneDelete(r) ==
    /\ At(r, "delete", "none")
    /\ FinishItem(r, << >>)
    /\ UNCHANGED disturbed

NoneRequestStep(r) == NoneSeal(r) \/ NoneRewrap(r) \/ NoneDelete(r)
=============================================================================
