------------------------------ MODULE Pairing ------------------------------
(***************************************************************************)
(* Pairing codes and the register of paired devices (AuthService and its   *)
(* routes).  Codes live in memory; the register is one JSON file, which    *)
(* every request that changes it reads and writes back whole.  The routes  *)
(* run on the server's thread pool and AuthService takes no lock, so any   *)
(* two of their steps may interleave.  The file is rewritten in place: it  *)
(* is empty from the moment a save opens it until the save has written it. *)
(* Left out: the rate limits, which only refuse more, and who may ask for  *)
(* a code.                                                                 *)
(***************************************************************************)
EXTENDS Naturals, FiniteSets

CONSTANTS
    Devices,
    Codes,          \* codes are random and never come twice
    MaxPending,     \* codes outstanding at one time
    MaxIds, MaxRevokes, MaxRestarts

ASSUME PairingBounds == {MaxPending, MaxIds, MaxRevokes, MaxRestarts} \subseteq Nat

VARIABLES
    code,       \* "unused", "live", "stale" (expired, not yet purged) or "gone"
    minting,    \* codes of requests that passed the cap and are not yet stored
    refusals,   \* history: how many live codes there were when one was refused
    register,   \* ids in devices.json, as it was last written
    file,       \* the file itself: "whole", "empty" or "garbled"
    issued,     \* ids given out so far
    token,      \* the id each device's token stands for, 0 without one
    redeemer,   \* a device's request to redeem a code
    revoker,    \* a request to revoke an id
    saved, revoked,     \* history: ids written to, or removed from, the register
    raced,      \* history: ids a write-back of a stale register dropped or revived
    torn,       \* what the file holds was left by a stop, or by two saves at once
    uses,       \* history: how many requests took each code
    restarts

codeVars == <<code, minting, refusals>>
registerVars == <<register, file, saved, revoked, raced, torn>>
vars == <<codeVars, registerVars, issued, token, redeemer, revoker, uses, restarts>>

Ids == 1..MaxIds
NoCode == "none"
Asking == [pc |-> "idle", code |-> NoCode, id |-> 0, data |-> {}]
NotRevoking == [pc |-> "idle", id |-> 0, data |-> {}]

TypeOK ==
    /\ \A c \in Codes : code[c] \in {"unused", "live", "stale", "gone"}
    /\ minting \subseteq Codes
    /\ register \subseteq Ids /\ issued \in 0..MaxIds
    /\ file \in {"whole", "empty", "garbled"} /\ torn \in BOOLEAN
    /\ \A d \in Devices :
          /\ token[d] \in 0..issued
          /\ redeemer[d].pc \in {"idle", "found", "taken", "read", "saving", "saved"}
    /\ revoker.pc \in {"idle", "read", "saving"}
    /\ \A d, e \in Devices : token[d] = token[e] => d = e \/ token[d] = 0

Init ==
    /\ code = [c \in Codes |-> "unused"] /\ minting = {} /\ refusals = {}
    /\ register = {} /\ issued = 0 /\ token = [d \in Devices |-> 0]
    /\ redeemer = [d \in Devices |-> Asking] /\ revoker = NotRevoking
    /\ file = "whole" /\ saved = {} /\ revoked = {} /\ raced = {} /\ torn = FALSE
    /\ uses = [c \in Codes |-> 0] /\ restarts = 0

-----------------------------------------------------------------------------
(* Codes.                                                                  *)

Live == {c \in Codes : code[c] = "live"}
Pending == {c \in Codes : code[c] \in {"live", "stale"}}

\* Faulty variant: the cap counts expired codes too.
UnpurgedCodes == code

\* _purge_expired.
PurgedCodes == [c \in Codes |-> IF code[c] = "stale" THEN "gone" ELSE code[c]]

MintChecks(c) ==
    /\ code[c] = "unused" /\ c \notin minting
    /\ code' = PurgedCodes
    /\ IF Cardinality(Pending') >= MaxPending
       THEN refusals' = refusals \cup {Cardinality(Live)} /\ UNCHANGED minting
       ELSE minting' = minting \cup {c} /\ UNCHANGED refusals
    /\ UNCHANGED <<registerVars, issued, token, redeemer, revoker, uses, restarts>>

MintStores(c) ==
    /\ c \in minting
    /\ code' = [code EXCEPT ![c] = "live"] /\ minting' = minting \ {c}
    /\ UNCHANGED <<refusals, registerVars, issued, token, redeemer, revoker, uses, restarts>>

CodeExpires(c) ==
    /\ code[c] = "live"
    /\ code' = [code EXCEPT ![c] = "stale"]
    /\ UNCHANGED <<minting, refusals, registerVars, issued, token, redeemer, revoker, uses,
                   restarts>>

-----------------------------------------------------------------------------
(* Redeeming a code.                                                       *)

\* The code is looked up; an expired one is dropped.
RedeemFinds(d, c) ==
    /\ redeemer[d] = Asking
    /\ \/ /\ code[c] = "live"
          /\ redeemer' = [redeemer EXCEPT ![d].pc = "found", ![d].code = c]
          /\ UNCHANGED code
       \/ /\ code[c] = "stale"
          /\ code' = [code EXCEPT ![c] = "gone"]
          /\ UNCHANGED redeemer
    /\ UNCHANGED <<minting, refusals, registerVars, issued, token, revoker, uses, restarts>>

\* Faulty variant: as dict.pop(code, None).
PopCode(c) == TRUE

\* `del` raises when another request has taken the code since.
DelCode(c) == c \in Pending

\* Faulty variant: the number of devices serves as id.
CountId == Cardinality(register) + 1
\* Ids are random; they never come twice.
NextId == issued + 1

RedeemTakes(d) ==
    LET c == redeemer[d].code IN
    /\ redeemer[d].pc = "found"
    /\ issued < MaxIds
    /\ IF DelCode(c)
       THEN /\ code' = [code EXCEPT ![c] = "gone"]
            /\ uses' = [uses EXCEPT ![c] = @ + 1]
            /\ issued' = NextId
            /\ redeemer' = [redeemer EXCEPT ![d].pc = "taken", ![d].id = issued']
       ELSE redeemer' = [redeemer EXCEPT ![d] = Asking] /\ UNCHANGED <<code, uses, issued>>
    /\ UNCHANGED <<minting, refusals, registerVars, token, revoker, restarts>>

\* _load reads the whole file: what is no JSON ends the request.
RedeemReads(d) ==
    /\ redeemer[d].pc = "taken"
    /\ redeemer' = [redeemer EXCEPT ![d] =
          IF file = "whole" THEN [@ EXCEPT !.pc = "read", !.data = register] ELSE Asking]
    /\ UNCHANGED <<codeVars, registerVars, issued, token, revoker, uses, restarts>>

\* What a write-back of `data` drops or revives of what others wrote since.
Overwritten(data) == (register \ data) \cup (data \ register)

\* _save opens the file, which empties it.
Opens == file' = "empty" /\ UNCHANGED <<register, saved, revoked, raced, torn>>

\* _save writes the file from its start.  Into what another save has written
\* meanwhile, a shorter text leaves the end of the longer one standing.
Writes(ids) ==
    /\ register' = ids
    /\ file' \in IF file = "empty" THEN {"whole"} ELSE {"whole", "garbled"}
    /\ torn' = (file' = "garbled")

RedeemOpens(d) ==
    /\ redeemer[d].pc = "read"
    /\ Opens
    /\ redeemer' = [redeemer EXCEPT ![d].pc = "saving"]
    /\ UNCHANGED <<codeVars, issued, token, revoker, uses, restarts>>

\* Faulty variant: the register starts anew.
WithOnly(data, id) == {id}
With(data, id) == data \cup {id}

RedeemSaves(d) ==
    LET r == redeemer[d] IN
    /\ r.pc = "saving"
    /\ Writes(With(r.data, r.id))
    /\ raced' = raced \cup Overwritten(r.data)
    /\ saved' = saved \cup {r.id}
    /\ redeemer' = [redeemer EXCEPT ![d].pc = "saved"]
    /\ UNCHANGED <<codeVars, revoked, issued, token, revoker, uses, restarts>>

\* Whom verify finds: nobody while the file is not whole, since _load raises.
Admitted == IF file = "whole" THEN register ELSE {}

\* The route verifies the new token, and fails when it does not find it.
RedeemVerifies(d) ==
    /\ redeemer[d].pc = "saved"
    /\ token' = IF redeemer[d].id \in Admitted
                THEN [token EXCEPT ![d] = redeemer[d].id] ELSE token
    /\ redeemer' = [redeemer EXCEPT ![d] = Asking]
    /\ UNCHANGED <<codeVars, registerVars, issued, revoker, uses, restarts>>

-----------------------------------------------------------------------------
(* Revoking, and restarts.                                                 *)

RevokeReads(i) ==
    /\ revoker = NotRevoking /\ i \in Admitted
    /\ Cardinality(revoked) < MaxRevokes
    /\ revoker' = [pc |-> "read", id |-> i, data |-> register]
    /\ UNCHANGED <<codeVars, registerVars, issued, token, redeemer, uses, restarts>>

RevokeOpens ==
    /\ revoker.pc = "read"
    /\ Opens
    /\ revoker' = [revoker EXCEPT !.pc = "saving"]
    /\ UNCHANGED <<codeVars, issued, token, redeemer, uses, restarts>>

RevokeSaves ==
    /\ revoker.pc = "saving"
    /\ Writes(revoker.data \ {revoker.id})
    /\ raced' = raced \cup (Overwritten(revoker.data) \ {revoker.id})
    /\ revoked' = revoked \cup {revoker.id}
    /\ revoker' = NotRevoking
    /\ UNCHANGED <<codeVars, saved, issued, token, redeemer, uses, restarts>>

\* Outstanding codes and running requests are gone; the register is the file,
\* which stays as the stop has left it: nothing ever repairs it.
ServerRestarts ==
    /\ restarts < MaxRestarts
    /\ restarts' = restarts + 1
    /\ code' = [c \in Codes |-> IF c \in Pending \cup minting THEN "gone" ELSE code[c]]
    /\ minting' = {}
    /\ redeemer' = [d \in Devices |-> Asking] /\ revoker' = NotRevoking
    /\ torn' = (file # "whole")
    /\ UNCHANGED <<refusals, register, file, saved, revoked, raced, issued, token, uses>>

Next ==
    \/ \E c \in Codes : MintChecks(c) \/ MintStores(c) \/ CodeExpires(c)
    \/ \E d \in Devices : \/ \E c \in Codes : RedeemFinds(d, c)
                          \/ RedeemTakes(d) \/ RedeemReads(d)
                          \/ RedeemOpens(d) \/ RedeemSaves(d) \/ RedeemVerifies(d)
    \/ \E i \in Ids : RevokeReads(i)
    \/ RevokeOpens \/ RevokeSaves \/ ServerRestarts

Spec == Init /\ [][Next]_vars

-----------------------------------------------------------------------------
(* Properties.                                                             *)

\* A code pairs one device, though several requests find it at once; and the
\* cap refuses a code only while that many are still live.
CodesPairOnce ==
    /\ \A c \in Codes : uses[c] <= 1
    /\ \A n \in refusals : n >= MaxPending

Saving == revoker.pc = "saving" \/ \E d \in Devices : redeemer[d].pc = "saving"

\* Nobody is admitted who was not registered or was revoked, and a device once
\* registered is admitted until it is revoked, through restarts and other
\* devices' pairings; unless a request wrote back a register it had read before
\* another one changed it.  Nobody may be admitted while a save is under way,
\* nor once a stop or two saves at once have torn the file, until a request that
\* read it before writes it whole.
RegisterIsKept ==
    \A i \in Ids \ raced :
        /\ i \in Admitted => i \in saved \ revoked
        /\ i \in saved \ revoked => i \in Admitted \/ Saving \/ torn

=============================================================================
