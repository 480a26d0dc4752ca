--------------------------- MODULE Pairing_proofs ----------------------------
(***************************************************************************)
(* Pairing for any number of devices, codes, revocations and restarts: its *)
(* types, that a code pairs one device, and that the register is kept.     *)
(* The inductive invariant says of an id on its way into the register that *)
(* nobody else has it and that it was neither written nor revoked so far,  *)
(* and of the file that whoever emptied it has yet to write it, or that it *)
(* is torn.                                                                *)
(***************************************************************************)
EXTENDS Pairing, TLAPS

Request == [pc : {"idle", "found", "taken", "read", "saving", "saved"},
            code : Codes \cup {NoCode}, id : Nat, data : SUBSET Nat]

Shape ==
    /\ code \in [Codes -> {"unused", "live", "stale", "gone"}]
    /\ minting \subseteq Codes
    /\ issued \in Nat /\ issued <= MaxIds
    /\ token \in [Devices -> Nat]
    /\ redeemer \in [Devices -> Request]
    /\ revoker \in [pc : {"idle", "read", "saving"}, id : Nat, data : SUBSET Nat]
    /\ uses \in [Codes -> Nat]

Has(d) == redeemer[d].pc \in {"taken", "read", "saving", "saved"}

\* A code that was taken is gone, one being minted was never out.
CodeInv ==
    /\ \A c \in Codes : uses[c] = 0 \/ (uses[c] = 1 /\ code[c] = "gone")
    /\ \A c \in minting : code[c] = "unused"
    /\ \A d \in Devices : redeemer[d].pc = "found" => redeemer[d].code \in Codes
    /\ \A n \in refusals : n >= MaxPending

\* Only what was written is read, revoked or in the register.
SavedInv ==
    /\ saved \subseteq 1..issued
    /\ register \subseteq saved /\ revoked \subseteq saved
    /\ \A d \in Devices : redeemer[d].data \subseteq saved
    /\ revoker.data \subseteq saved
    /\ revoker.pc \in {"read", "saving"} => revoker.id \in saved

\* An id is one device's, from the moment it is drawn.
IdInv ==
    /\ \A d \in Devices : token[d] <= issued
    /\ \A d \in Devices : Has(d) => redeemer[d].id \in 1..issued
    /\ \A d \in Devices :
          redeemer[d].pc \in {"taken", "read", "saving"} => redeemer[d].id \notin saved
    /\ \A d, e \in Devices : Has(d) /\ Has(e) /\ d # e => redeemer[d].id # redeemer[e].id
    /\ \A d, e \in Devices : Has(d) => token[e] # redeemer[d].id
    /\ \A d, e \in Devices : token[d] = token[e] => d = e \/ token[d] = 0

\* A file that is not whole is torn, or some save is yet to write it; and what
\* was last written is what is registered and not revoked.
FileInv ==
    /\ file \in {"whole", "empty", "garbled"} /\ torn \in BOOLEAN
    /\ file # "whole" => torn \/ Saving
    /\ \A i \in Ids \ raced : i \in register <=> i \in saved \ revoked

Inv == Shape /\ CodeInv /\ SavedInv /\ IdInv /\ FileInv

-----------------------------------------------------------------------------
LEMMA InitInv == Init => Inv
  <1>1. Init => Shape /\ CodeInv /\ SavedInv /\ IdInv
    BY PairingBounds DEF Init, Shape, Request, CodeInv, SavedInv, IdInv, Has, Asking, NotRevoking, NoCode, Ids
  <1>2. Init => FileInv
    BY DEF Init, FileInv
  <1> QED BY <1>1, <1>2 DEF Inv

\* Expired codes are purged before the cap is applied: what is left is live.
LEMMA PurgedAreLive ==
    ASSUME Shape, code' = PurgedCodes
    PROVE  /\ Pending' = Live
           /\ code' \in [Codes -> {"unused", "live", "stale", "gone"}]
           /\ \A c \in Codes : code[c] \in {"unused", "gone"} => code'[c] = code[c]
  BY DEF Shape, Request, PurgedCodes, Pending, Live

LEMMA MintChecksKeeps == ASSUME Inv, NEW c \in Codes, MintChecks(c) PROVE Inv'
  <1>1. /\ Pending' = Live
        /\ code' \in [Codes -> {"unused", "live", "stale", "gone"}]
        /\ \A k \in Codes : code[k] \in {"unused", "gone"} => code'[k] = code[k]
    BY PurgedAreLive DEF Inv, MintChecks
  <1>2. UNCHANGED <<registerVars, issued, token, redeemer, revoker, uses, restarts>>
    BY DEF MintChecks
  <1>3. /\ minting' \subseteq minting \cup {c}
        /\ \A n \in refusals' : n \in refusals \/ n >= MaxPending
    BY <1>1 DEF MintChecks
  <1>4. Shape' /\ CodeInv'
    BY <1>1, <1>2, <1>3 DEF Inv, Shape, Request, CodeInv, MintChecks
  <1>5. SavedInv' /\ IdInv' /\ FileInv'
    BY <1>2 DEF Inv, SavedInv, IdInv, Has, FileInv, Saving, registerVars
  <1> QED BY <1>4, <1>5 DEF Inv

\* The steps that touch codes only.
LEMMA MintStoresKeeps == ASSUME Inv, NEW c \in Codes, MintStores(c) PROVE Inv'
  <1>1. Shape' /\ CodeInv'
    BY DEF Inv, Shape, Request, CodeInv, MintStores
  <1>2. SavedInv' /\ IdInv' /\ FileInv'
    BY DEF Inv, SavedInv, IdInv, Has, FileInv, Saving, registerVars, MintStores
  <1> QED BY <1>1, <1>2 DEF Inv

LEMMA CodeExpiresKeeps == ASSUME Inv, NEW c \in Codes, CodeExpires(c) PROVE Inv'
  <1>1. Shape' /\ CodeInv'
    BY DEF Inv, Shape, Request, CodeInv, CodeExpires
  <1>2. SavedInv' /\ IdInv' /\ FileInv'
    BY DEF Inv, SavedInv, IdInv, Has, FileInv, Saving, registerVars, CodeExpires
  <1> QED BY <1>1, <1>2 DEF Inv

LEMMA RedeemFindsKeeps ==
    ASSUME Inv, NEW d \in Devices, NEW c \in Codes, RedeemFinds(d, c) PROVE Inv'
  <1>1. CASE code[c] = "live" /\ redeemer' = [redeemer EXCEPT ![d].pc = "found", ![d].code = c]
              /\ UNCHANGED code
    <2>1. /\ redeemer[d] = Asking
          /\ UNCHANGED <<codeVars, registerVars, issued, token, revoker, uses>>
      BY <1>1 DEF RedeemFinds, codeVars
    <2>2. [redeemer[d] EXCEPT !.pc = "found", !.code = c] \in Request
      BY DEF Inv, Shape, Request
    <2>3. Shape'
      BY <1>1, <2>1, <2>2 DEF Inv, Shape, codeVars
    <2>4. CodeInv'
      BY <1>1, <2>1 DEF Inv, Shape, Request, CodeInv, codeVars
    <2>5. SavedInv' /\ IdInv'
      BY <1>1, <2>1 DEF Inv, Shape, Request, SavedInv, IdInv, Has, registerVars, Asking
    <2>6. FileInv'
      BY <1>1, <2>1 DEF Inv, Shape, FileInv, Saving, registerVars, Asking
    <2> QED BY <2>3, <2>4, <2>5, <2>6 DEF Inv
  <1>2. CASE code[c] = "stale" /\ code' = [code EXCEPT ![c] = "gone"] /\ UNCHANGED redeemer
    <2>1. Shape' /\ CodeInv'
      BY <1>2 DEF Inv, Shape, Request, CodeInv, RedeemFinds
    <2>2. SavedInv' /\ IdInv' /\ FileInv'
      BY <1>2 DEF Inv, SavedInv, IdInv, Has, FileInv, Saving, registerVars, RedeemFinds
    <2> QED BY <2>1, <2>2 DEF Inv
  <1> QED BY <1>1, <1>2 DEF RedeemFinds

\* A fresh id: above all those issued, so nobody's and never written.
LEMMA RedeemTakesKeeps == ASSUME Inv, NEW d \in Devices, RedeemTakes(d) PROVE Inv'
  <1> DEFINE c == redeemer[d].code
  <1>1. c \in Codes
    BY DEF Inv, CodeInv, RedeemTakes
  <1>2. CASE DelCode(c)
    <2>1. /\ code' = [code EXCEPT ![c] = "gone"]
          /\ uses' = [uses EXCEPT ![c] = @ + 1]
          /\ issued' = issued + 1
          /\ redeemer' = [redeemer EXCEPT ![d].pc = "taken", ![d].id = issued']
          /\ UNCHANGED <<minting, refusals, registerVars, token, revoker, restarts>>
      BY <1>2 DEF RedeemTakes, NextId
    <2>2. uses[c] = 0
      BY <1>1, <1>2 DEF Inv, Shape, Request, CodeInv, DelCode, Pending
    <2>3. Shape'
      BY <1>1, <2>1, PairingBounds DEF Inv, Shape, Request, RedeemTakes
    <2>4. CodeInv'
      BY <1>1, <1>2, <2>1, <2>2 DEF Inv, Shape, Request, CodeInv, DelCode, Pending
    <2>5. SavedInv'
      BY <2>1 DEF Inv, Shape, Request, SavedInv, registerVars
    <2>6. IdInv'
      BY <2>1 DEF Inv, Shape, Request, SavedInv, IdInv, Has, registerVars
    <2>7. FileInv'
      BY <2>1 DEF Inv, Shape, FileInv, Saving, registerVars, RedeemTakes
    <2> QED BY <2>3, <2>4, <2>5, <2>6, <2>7 DEF Inv
  <1>3. CASE ~DelCode(c)
    <2>1. /\ redeemer' = [redeemer EXCEPT ![d] = Asking]
          /\ UNCHANGED <<code, uses, issued, minting, refusals, registerVars, token, revoker, restarts>>
      BY <1>3 DEF RedeemTakes
    <2>2. Shape'
      BY <2>1 DEF Inv, Shape, Request, Asking
    <2>3. CodeInv' /\ SavedInv' /\ IdInv'
      BY <2>1 DEF Inv, Shape, Request, CodeInv, SavedInv, IdInv, Has, registerVars, Asking
    <2>4. FileInv'
      BY <2>1 DEF Inv, Shape, FileInv, Saving, registerVars, RedeemTakes, Asking
    <2> QED BY <2>2, <2>3, <2>4 DEF Inv
  <1> QED BY <1>2, <1>3

LEMMA ReadRequest ==
    ASSUME NEW r \in Request, NEW data \in SUBSET Nat
    PROVE  [r EXCEPT !.pc = "read", !.data = data] \in Request
  BY DEF Request

LEMMA RedeemReadsKeeps == ASSUME Inv, NEW d \in Devices, RedeemReads(d) PROVE Inv'
  <1>1. register \in SUBSET Nat /\ redeemer[d] \in Request
    BY DEF Inv, Shape, SavedInv
  <1>2. UNCHANGED <<codeVars, registerVars, issued, token, revoker, uses>>
    BY DEF RedeemReads
  <1>3. CASE file = "whole"
    <2>1. redeemer' = [redeemer EXCEPT ![d] = [@ EXCEPT !.pc = "read", !.data = register]]
      BY <1>3 DEF RedeemReads
    <2>2. [redeemer[d] EXCEPT !.pc = "read", !.data = register] \in Request
      BY <1>1, ReadRequest
    <2>3. Shape'
      BY <1>2, <2>1, <2>2 DEF Inv, Shape, codeVars, registerVars
    <2>4. CodeInv' /\ SavedInv' /\ IdInv' /\ FileInv'
      BY <1>2, <1>3, <2>1 DEF Inv, Shape, Request, CodeInv, SavedInv, IdInv, Has, FileInv, RedeemReads,
                              codeVars, registerVars
    <2> QED BY <2>3, <2>4 DEF Inv
  <1>4. CASE file # "whole"
    <2>1. redeemer' = [redeemer EXCEPT ![d] = Asking]
      BY <1>4 DEF RedeemReads
    <2>2. Asking \in Request
      BY DEF Asking, Request
    <2>3. Shape' /\ CodeInv'
      BY <1>2, <2>1, <2>2 DEF Inv, Shape, Request, CodeInv, Asking, codeVars, registerVars
    <2>4. SavedInv' /\ IdInv' /\ FileInv'
      BY <1>2, <2>1 DEF Inv, Shape, Request, SavedInv, IdInv, Has, FileInv, Saving, RedeemReads, Asking,
                        codeVars, registerVars
    <2> QED BY <2>3, <2>4 DEF Inv
  <1> QED BY <1>3, <1>4

\* The file is emptied by a save that is yet to write it.
LEMMA RedeemOpensKeeps == ASSUME Inv, NEW d \in Devices, RedeemOpens(d) PROVE Inv'
  <1>1. /\ redeemer[d].pc = "read" /\ file' = "empty"
        /\ redeemer' = [redeemer EXCEPT ![d].pc = "saving"]
        /\ UNCHANGED <<codeVars, register, saved, revoked, raced, torn, issued, token, revoker, uses>>
    BY DEF RedeemOpens, Opens
  <1>2. Shape' /\ CodeInv'
    BY <1>1 DEF Inv, Shape, Request, CodeInv, codeVars
  <1>3. SavedInv' /\ IdInv'
    BY <1>1 DEF Inv, Shape, Request, SavedInv, IdInv, Has
  <1>4. FileInv'
    <2>1. redeemer'[d].pc = "saving"
      BY <1>1 DEF Inv, Shape, Request
    <2> QED BY <1>1, <2>1 DEF Inv, FileInv, Saving
  <1> QED BY <1>2, <1>3, <1>4 DEF Inv

LEMMA RevokeOpensKeeps == ASSUME Inv, RevokeOpens PROVE Inv'
  <1>1. /\ revoker.pc = "read" /\ file' = "empty"
        /\ revoker' = [revoker EXCEPT !.pc = "saving"]
        /\ UNCHANGED <<codeVars, register, saved, revoked, raced, torn, issued, token, redeemer, uses>>
    BY DEF RevokeOpens, Opens
  <1>2. Shape' /\ SavedInv'
    BY <1>1 DEF Inv, Shape, Request, SavedInv, codeVars
  <1>3. CodeInv' /\ IdInv'
    BY <1>1 DEF Inv, CodeInv, IdInv, Has, codeVars
  <1>4. FileInv'
    BY <1>1 DEF Inv, Shape, FileInv, Saving
  <1> QED BY <1>2, <1>3, <1>4 DEF Inv

\* What is neither dropped nor revived was in the register exactly when it was
\* in the copy written back; the id itself was never revoked.
LEMMA RedeemSavesKeeps == ASSUME Inv, NEW d \in Devices, RedeemSaves(d) PROVE Inv'
  <1> DEFINE r == redeemer[d]
  <1>1. /\ r.pc = "saving" /\ r.id \notin saved /\ r.id \in 1..issued
        /\ Writes(r.data \cup {r.id})
        /\ raced' = raced \cup Overwritten(r.data)
        /\ saved' = saved \cup {r.id}
        /\ redeemer' = [redeemer EXCEPT ![d].pc = "saved"]
        /\ UNCHANGED <<codeVars, revoked, issued, token, revoker, uses, restarts>>
    BY DEF Inv, IdInv, Has, RedeemSaves, With
  <1>2. /\ register' = r.data \cup {r.id}
        /\ file' \in {"whole", "garbled"} /\ torn' \in BOOLEAN
        /\ file' # "whole" => torn'
    BY <1>1 DEF Writes
  <1>3. Shape' /\ CodeInv'
    BY <1>1, <1>2 DEF Inv, Shape, Request, CodeInv, codeVars
  <1>4. SavedInv'
    BY <1>1, <1>2 DEF Inv, Shape, Request, SavedInv
  <1>5. IdInv'
    BY <1>1 DEF Inv, Shape, Request, IdInv, Has
  <1>6. FileInv'
    BY <1>1, <1>2 DEF Inv, SavedInv, FileInv, Overwritten
  <1> QED BY <1>3, <1>4, <1>5, <1>6 DEF Inv

LEMMA RedeemVerifiesKeeps == ASSUME Inv, NEW d \in Devices, RedeemVerifies(d) PROVE Inv'
  <1>1. Shape'
    BY DEF Inv, Shape, Request, RedeemVerifies, codeVars, registerVars, Asking
  <1>2. CodeInv' /\ SavedInv' /\ FileInv'
    BY DEF Inv, Shape, Request, CodeInv, SavedInv, FileInv, Saving, RedeemVerifies, codeVars, registerVars, Asking
  <1>3. IdInv'
    BY DEF Inv, Shape, Request, IdInv, Has, RedeemVerifies, codeVars, registerVars, Asking
  <1> QED BY <1>1, <1>2, <1>3 DEF Inv

LEMMA RevokeReadsKeeps == ASSUME Inv, NEW i \in Ids, RevokeReads(i) PROVE Inv'
  <1>1. Shape' /\ SavedInv'
    BY DEF Inv, Shape, Request, SavedInv, RevokeReads, Admitted, codeVars, registerVars, Ids
  <1>2. CodeInv' /\ IdInv'
    BY DEF Inv, CodeInv, IdInv, Has, RevokeReads, codeVars, registerVars
  <1>3. FileInv'
    BY DEF Inv, FileInv, RevokeReads, Admitted, registerVars
  <1> QED BY <1>1, <1>2, <1>3 DEF Inv

LEMMA RevokeSavesKeeps == ASSUME Inv, RevokeSaves PROVE Inv'
  <1>1. /\ register' = revoker.data \ {revoker.id}
        /\ file' \in {"whole", "garbled"} /\ torn' \in BOOLEAN
        /\ file' # "whole" => torn'
        /\ revoker.pc = "saving" /\ revoker' = NotRevoking
        /\ raced' = raced \cup (Overwritten(revoker.data) \ {revoker.id})
        /\ revoked' = revoked \cup {revoker.id}
        /\ UNCHANGED <<codeVars, saved, issued, token, redeemer, uses>>
    BY DEF RevokeSaves, Writes
  <1>2. Shape' /\ SavedInv'
    BY <1>1 DEF Inv, Shape, Request, SavedInv, codeVars, NotRevoking
  <1>3. CodeInv' /\ IdInv'
    BY <1>1 DEF Inv, CodeInv, IdInv, Has, codeVars
  <1>4. FileInv'
    BY <1>1 DEF Inv, FileInv, Overwritten
  <1> QED BY <1>2, <1>3, <1>4 DEF Inv

LEMMA ServerRestartsKeeps == ASSUME Inv, ServerRestarts PROVE Inv'
  <1>1. Shape'
    BY DEF Inv, Shape, Request, ServerRestarts, Asking, NotRevoking
  <1>2. CodeInv'
    BY DEF Inv, Shape, Request, CodeInv, ServerRestarts, Asking
  <1>3. SavedInv' /\ IdInv'
    BY DEF Inv, Shape, Request, SavedInv, IdInv, Has, ServerRestarts, Asking, NotRevoking
  <1>4. FileInv'
    BY DEF Inv, FileInv, ServerRestarts
  <1> QED BY <1>1, <1>2, <1>3, <1>4 DEF Inv

LEMMA NextInv == Inv /\ [Next]_vars => Inv'
  <1> SUFFICES ASSUME Inv, [Next]_vars PROVE Inv'
    OBVIOUS
  <1>1. CASE UNCHANGED vars
    BY <1>1 DEF Inv, Shape, Request, CodeInv, SavedInv, IdInv, Has, FileInv, Saving, vars, codeVars, registerVars
  <1>2. ASSUME NEW c \in Codes, MintChecks(c) \/ MintStores(c) \/ CodeExpires(c) PROVE Inv'
    BY <1>2, MintChecksKeeps, MintStoresKeeps, CodeExpiresKeeps
  <1>3. ASSUME NEW d \in Devices, \/ \E c \in Codes : RedeemFinds(d, c)
                                  \/ RedeemTakes(d) \/ RedeemReads(d)
                                  \/ RedeemOpens(d) \/ RedeemSaves(d) \/ RedeemVerifies(d)
        PROVE Inv'
    BY <1>3, RedeemFindsKeeps, RedeemTakesKeeps, RedeemReadsKeeps, RedeemOpensKeeps,
       RedeemSavesKeeps,
       RedeemVerifiesKeeps
  <1>4. ASSUME NEW i \in Ids, RevokeReads(i) PROVE Inv'
    BY <1>4, RevokeReadsKeeps
  <1> QED BY <1>1, <1>2, <1>3, <1>4, RevokeOpensKeeps, RevokeSavesKeeps, ServerRestartsKeeps DEF Next

THEOREM PairingInvariant == Spec => []Inv
  BY InitInv, NextInv, PTL DEF Spec

\* The types, and that no two devices share a token.
THEOREM PairingTypes == Spec => []TypeOK
  <1>1. ASSUME Inv PROVE TypeOK
    <2>1. /\ register \subseteq Ids /\ issued \in 0..MaxIds
          /\ \A d \in Devices : token[d] \in 0..issued
      BY <1>1, PairingBounds DEF Inv, Shape, Request, SavedInv, IdInv, Ids
    <2>2. /\ \A c \in Codes : code[c] \in {"unused", "live", "stale", "gone"}
          /\ minting \subseteq Codes
          /\ \A d \in Devices :
                redeemer[d].pc \in {"idle", "found", "taken", "read", "saving", "saved"}
          /\ revoker.pc \in {"idle", "read", "saving"}
      BY <1>1 DEF Inv, Shape, Request
    <2>3. file \in {"whole", "empty", "garbled"} /\ torn \in BOOLEAN
      BY <1>1 DEF Inv, FileInv
    <2> QED BY <1>1, <2>1, <2>2, <2>3 DEF Inv, IdInv, TypeOK
  <1> QED BY <1>1, PairingInvariant, PTL

\* A code pairs one device, and the cap counts live codes only.
THEOREM OneDevicePerCode == Spec => []CodesPairOnce
  <1>1. Inv => CodesPairOnce
    BY DEF Inv, Shape, Request, CodeInv, CodesPairOnce
  <1> QED BY <1>1, PairingInvariant, PTL

\* A device is admitted from its registration to its revocation, except where a
\* write-back of a stale register came in between, while a save is under way and
\* while the file is torn; nobody else is admitted at any time.
THEOREM AdmittedUntilRevoked == Spec => []RegisterIsKept
  <1>1. Inv => RegisterIsKept
    BY DEF Inv, FileInv, RegisterIsKept, Admitted
  <1> QED BY <1>1, PairingInvariant, PTL
=============================================================================
