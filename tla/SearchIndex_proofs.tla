------------------------- MODULE SearchIndex_proofs -------------------------
(***************************************************************************)
(* The search index for any notes, texts, threads, failures and restarts:  *)
(* its types, that it is current, and that a search is not crowded out.    *)
(*                                                                         *)
(* The inductive invariant is about a note that is not in doubt: at most   *)
(* one thread indexes it, from the document on disk, and what that thread  *)
(* has put in so far is all the index has of the note.                     *)
(***************************************************************************)
EXTENDS SearchIndex, FiniteSetTheorems, WellFoundedInduction, TLAPS

Job == [pc : {"idle", "read", "remove", "embed", "store", "drop", "list", "clear"},
        note : Notes \cup {NoNote}, text : 0..MaxTexts, next : Nat \ {0},
        tool : Tools \cup {Lock}, own : 0..MaxTexts, again : BOOLEAN]

\* What a thread is at, and with what.
JobFits(j) ==
    /\ j \in Job
    /\ j.pc # "idle" => j.note \in Notes
    /\ j.pc \in {"remove", "embed", "store"} => j.text \in Texts
    /\ j.pc \in {"read", "remove", "embed"} => j.next = 1
    /\ j.tool # Lock => j.own \in Texts

JobInv ==
    /\ job \in [Threads -> Job] /\ texts \in 0..MaxTexts
    /\ \A t \in Threads : JobFits(job[t])
    /\ job[Lock].pc \in {"idle", "remove", "embed", "store"}
    /\ job[Lock].tool # Lock => job[job[Lock].tool] = Idle
    /\ \A t \in Threads : t # Lock => job[t].tool = Lock /\ ~job[t].again
    /\ job[Import].pc = "list" => todo = <<>>
    /\ \A n \in DOMAIN todo : todo[n] \in Texts

\* A thread that indexes a note, with job j: under the lock from the write on.
ActiveIn(t, j, n) ==
    j.note = n /\ (j.pc \in {"embed", "store"} \/ (t = Lock /\ j.pc = "remove"))
Active(t, n) == ActiveIn(t, job[t], n)

\* An import will index the note.
Pending(n) == n \in DOMAIN todo \/ (job[Import].note = n /\ job[Import].pc = "remove")

\* The chunks before the next one are in.
Prefix(text, next) == [c \in Chunks |-> IF c < next THEN text ELSE 0]

NoteInv(n) ==
    n \notin doubt =>
        /\ \A t, u \in Threads : Active(t, n) /\ Active(u, n) => t = u
        /\ \A t \in Threads : Active(t, n) => job[t].text = disk[n]
        /\ ~Pending(n) =>
              /\ \A t \in Threads : Active(t, n) /\ job[t].pc # "remove" =>
                     entries[n] = Prefix(job[t].text, job[t].next)
              /\ (\A t \in Threads : ~Active(t, n)) => entries[n] = IndexOf(disk[n])

IInv == TypeOK /\ JobInv /\ \A n \in Notes : NoteInv(n)

-----------------------------------------------------------------------------
(* Induction over a finite set: a set of subsets of it has a smallest one. *)

LEMMA SmallestSubset ==
    ASSUME NEW T, IsFiniteSet(T), NEW F, \A x \in F : x \subseteq T, F # {}
    PROVE  \E x \in F : \A y \in F : ~(y \subseteq x /\ y # x)
  <1> DEFINE R == StrictSubsetOrdering(T)
  <1>1. IsWellFoundedOn(R, SUBSET T)
    BY FS_StrictSubsetOrderingWellFounded, FS_FiniteSubsetsOfFinite
  <1>2. \A x, y \in F : y \subseteq x /\ y # x => <<y, x>> \in R
    BY DEF StrictSubsetOrdering
  <1> HIDE DEF R
  <1>3. \E x \in F : \A y \in F : ~(<<y, x>> \in R)
    BY <1>1, WFMin
  <1> QED BY <1>2, <1>3

\* A finite set of numbers that is not empty has a greatest one.
LEMMA MaxOfFinite ==
    ASSUME NEW S \in SUBSET Nat, IsFiniteSet(S), S # {}
    PROVE  Max(S) \in S /\ \A y \in S : Max(S) >= y
  <1> DEFINE Greatest(U, x) == x \in U /\ \A y \in U : x >= y
             F == {U \in SUBSET S : U # {} /\ ~\E x \in U : Greatest(U, x)}
  <1>1. SUFFICES \E x \in S : Greatest(S, x)
    BY DEF Max
  <1>2. SUFFICES ASSUME F # {} PROVE FALSE
    <2>1. S \notin F
      BY <1>2
    <2> QED BY <2>1
  <1>3. PICK U \in F : \A y \in F : ~(y \subseteq U /\ y # U)
    <2>1. (\A x \in F : x \subseteq S) /\ F # {}
      BY <1>2
    <2>2. \E x \in F : \A y \in F : ~(y \subseteq x /\ y # x)
      <3> HIDE DEF F, Greatest
      <3> QED BY <2>1, SmallestSubset
    <2> HIDE DEF F
    <2> QED BY <2>2
  <1>4. PICK i \in U : TRUE
    OBVIOUS
  <1>5. U \in SUBSET Nat /\ i \in Nat
    BY <1>4
  <1>6. CASE U = {i}
    <2>1. Greatest(U, i)
      BY <1>5, <1>6
    <2> QED BY <2>1
  <1>7. CASE U # {i}
    <2>1. PICK x \in U \ {i} : Greatest(U \ {i}, x)
      <3>1. U \ {i} \in SUBSET S /\ U \ {i} # {} /\ U \ {i} \subseteq U /\ U \ {i} # U
        BY <1>4, <1>7
      <3>2. U \ {i} \notin F
        <4> HIDE DEF F
        <4> QED BY <1>3, <3>1
      <3> QED BY <3>1, <3>2
    <2>2. CASE x >= i
      <3>1. Greatest(U, x)
        BY <2>1, <2>2
      <3> QED BY <3>1
    <2>3. CASE ~(x >= i)
      <3>1. Greatest(U, i)
        BY <1>4, <1>5, <2>1, <2>3
      <3> QED BY <3>1, <1>4
    <2> QED BY <2>2, <2>3
  <1> QED BY <1>6, <1>7

\* Every text's chunks are chunks.
LEMMA ChunksOfTexts ==
    /\ Chunks \in SUBSET Nat /\ IsFiniteSet(Chunks)
    /\ \A text \in Texts : Sizes[text] \in Chunks /\ Sizes[text] \in Nat \ {0}
  <1> DEFINE S == {Sizes[i] : i \in Texts}
  <1>1. IsFiniteSet(S)
    <2>1. Sizes \in Surjection(Texts, S)
      BY BoundsAssumption DEF Surjection, Texts
    <2>2. 1 \in Int /\ MaxTexts \in Int
      BY BoundsAssumption
    <2>3. IsFiniteSet(Texts)
      BY <2>2, FS_Interval DEF Texts
    <2> HIDE DEF S
    <2> QED BY <2>1, <2>3, FS_Surjection
  <1>2. IsFiniteSet(S \cup {1}) /\ S \cup {1} \in SUBSET Nat
    <2>1. S \cup {1} \in SUBSET Nat
      BY BoundsAssumption DEF Texts
    <2> HIDE DEF S
    <2> QED BY <1>1, <2>1, FS_AddElement
  <1>3. \A text \in Texts : Sizes[text] \in S /\ Sizes[text] \in Nat \ {0}
    BY BoundsAssumption DEF Texts
  <1> DEFINE m == Max(S \cup {1})
  <1>4. m \in Nat /\ \A x \in S : m >= x
    <2> HIDE DEF S
    <2> QED BY <1>2, MaxOfFinite
  <1>5. Chunks = 1..m
    BY DEF Chunks
  <1> HIDE DEF m, S
  <1>6. Chunks \in SUBSET Nat /\ IsFiniteSet(Chunks)
    BY <1>4, <1>5, FS_Interval
  <1>7. \A text \in Texts : Sizes[text] \in Chunks
    BY <1>3, <1>4, <1>5
  <1> QED BY <1>3, <1>6, <1>7

-----------------------------------------------------------------------------
(* What the threads are at. *)

LEMMA LockIsNoTool == Lock \in Threads /\ Import \in Threads /\ Lock # Import
                      /\ Lock \notin Tools /\ Import \notin Tools
  BY ThreadsAssumption DEF Threads, Lock, Import

LEMMA IdleFits == Idle \in Job /\ JobFits(Idle)
  BY BoundsAssumption DEF Idle, Job, JobFits

\* What a thread that was idle starts with.
LEMMA IdleFor ==
    ASSUME NEW n \in Notes
    PROVE  /\ \A pc \in {"drop", "list"} :
                 /\ [Idle EXCEPT !.pc = pc, !.note = n] \in Job
                 /\ JobFits([Idle EXCEPT !.pc = pc, !.note = n])
           /\ \A text \in Texts :
                 /\ [Idle EXCEPT !.pc = "remove", !.note = n, !.text = text] \in Job
                 /\ JobFits([Idle EXCEPT !.pc = "remove", !.note = n, !.text = text])
  <1>1. 0 \in 0..MaxTexts /\ Texts \subseteq 0..MaxTexts /\ 1 \in Nat \ {0}
    BY BoundsAssumption DEF Texts
  <1>2. ASSUME NEW pc \in {"drop", "list"}, NEW j, j = [Idle EXCEPT !.pc = pc, !.note = n]
        PROVE  j \in Job /\ JobFits(j)
    <2>1. j \in Job /\ j.pc = pc /\ j.note = n /\ j.tool = Lock
      BY <1>1, <1>2 DEF Idle, Job
    <2> QED BY <2>1 DEF JobFits
  <1>3. ASSUME NEW text \in Texts, NEW j,
               j = [Idle EXCEPT !.pc = "remove", !.note = n, !.text = text]
        PROVE  j \in Job /\ JobFits(j)
    <2>1. j \in Job /\ j.pc = "remove" /\ j.note = n /\ j.text = text /\ j.next = 1 /\ j.tool = Lock
      BY <1>1, <1>3 DEF Idle, Job
    <2> QED BY <2>1 DEF JobFits
  <1> QED BY <1>2, <1>3

\* What indexing starts with under the lock.
LEMMA WrittenFor ==
    ASSUME NEW n \in Notes, NEW text \in Texts, NEW tool \in Tools \cup {Lock}
    PROVE  LET j == [Idle EXCEPT !.pc = "remove", !.note = n, !.text = text,
                                 !.own = text, !.tool = tool]
           IN  j \in Job /\ JobFits(j)
  <1> DEFINE j == [Idle EXCEPT !.pc = "remove", !.note = n, !.text = text,
                               !.own = text, !.tool = tool]
  <1>1. 0 \in 0..MaxTexts /\ text \in 0..MaxTexts /\ 1 \in Nat \ {0}
    BY BoundsAssumption DEF Texts
  <1>2. /\ j \in Job /\ j.pc = "remove" /\ j.note = n /\ j.text = text /\ j.own = text
        /\ j.next = 1
    BY <1>1 DEF Idle, Job
  <1> HIDE DEF j
  <1>3. JobFits(j)
    BY <1>2 DEF JobFits
  <1> QED BY <1>2, <1>3 DEF j

\* A thread that is through has stopped, and a tool may have taken the note over;
\* or the observer begins with it a second time.
LEMMA AfterThrough ==
    ASSUME IInv, NEW t \in Threads, job[t].pc \in {"embed", "store"},
           NEW pc \in {"read", "remove"}, Through(t, pc)
    PROVE  /\ job' \in [Threads -> Job]
           /\ \A u \in Threads : JobFits(job'[u])
           /\ \/ job'[t] = Idle
              \/ /\ t = Lock /\ job'[t].pc = "remove" /\ job'[t].tool = job[t].tool
                 /\ job'[t].note = job[t].note /\ job'[t].text = job[t].text
                 /\ \A u \in Threads \ {t} : job'[u] = job[u]
           /\ \A u \in Threads \ {t} :
                 \/ job'[u] = job[u]
                 \/ /\ u \in Tools /\ job[u] = Idle /\ job'[u].pc = pc
                    /\ job'[u].note = job[t].note /\ job'[u].tool = Lock /\ ~job'[u].again
  <1> USE DEF IInv, JobInv
  <1>0. /\ job[t] \in Job /\ JobFits(job[t]) /\ 1 \in Nat \ {0}
        /\ {"remove", "read"} \subseteq
              {"idle", "read", "remove", "embed", "store", "drop", "list", "clear"}
    OBVIOUS
  <1>1. CASE ~job[t].again /\ job[t].tool # Lock
    <2> DEFINE tool == job[t].tool
    <2>1. t = Lock /\ tool \in Tools /\ tool \in Threads /\ tool # t /\ job[tool] = Idle
      BY <1>1, LockIsNoTool DEF Job, Threads
    <2>2. PICK note \in Notes, text \in Texts : note = job[t].note /\ text = job[t].own
      BY <1>0, <1>1 DEF JobFits
    <2> DEFINE j == [Idle EXCEPT !.pc = pc, !.note = note, !.text = text]
    <2>3. j = [Idle EXCEPT !.pc = pc, !.note = note, !.text = text]
      OBVIOUS
    <2> HIDE DEF j
    <2>4. /\ j \in Job /\ JobFits(j)
          /\ j.pc = pc /\ j.note = note /\ j.tool = Lock /\ ~j.again
      <3>1. /\ note \in Notes /\ text \in 0..MaxTexts /\ 0 \in 0..MaxTexts /\ 1 \in Nat \ {0}
            /\ pc \in {"read", "remove"}
        BY BoundsAssumption DEF Texts
      <3>2. /\ j.pc = pc /\ j.note = note /\ j.text = text /\ j.next = 1
            /\ j.tool = Lock /\ j.own = 0 /\ j.again = FALSE
        BY ONLY <2>3 DEF Idle
      <3>3. j \in Job
        BY ONLY <2>3, <3>1 DEF Idle, Job
      <3> QED BY <3>2, <3>3 DEF JobFits
    <2>5. job' = [job EXCEPT ![t] = Idle, ![tool] = j]
      BY <1>1, <2>2, <2>3 DEF Through
    <2> HIDE DEF tool
    <2> QED BY <2>1, <2>2, <2>4, <2>5, IdleFits
  <1>2. CASE ~job[t].again /\ job[t].tool = Lock
    <2>1. job' = [job EXCEPT ![t] = Idle]
      BY <1>2 DEF Through
    <2> QED BY <2>1, IdleFits
  <1>3. CASE job[t].again
    <2> DEFINE j == [job[t] EXCEPT !.pc = "remove", !.next = 1, !.again = FALSE]
    <2>1. t = Lock /\ job' = [job EXCEPT ![t] = j]
      BY <1>3 DEF Through
    <2>2. j \in Job /\ j.note = job[t].note /\ j.pc = "remove" /\ j.text = job[t].text
          /\ j.next = 1 /\ j.tool = job[t].tool /\ j.own = job[t].own
      BY <1>0 DEF Job
    <2>3. JobFits(j)
      <3> HIDE DEF j
      <3> QED BY <1>0, <2>2 DEF JobFits
    <2> HIDE DEF j
    <2> QED BY <2>1, <2>2, <2>3
  <1> QED BY <1>1, <1>2, <1>3

LEMMA JobFitsStep == ASSUME IInv, [Next]_vars
                     PROVE /\ job' \in [Threads -> Job]
                           /\ \A u \in Threads : JobFits(job'[u])
  <1> USE DEF IInv, JobInv
  <1> DEFINE Fits == job' \in [Threads -> Job] /\ \A u \in Threads : JobFits(job'[u])
  <1>0. \A t \in Threads : \A j : j \in Job /\ JobFits(j) /\ job' = [job EXCEPT ![t] = j] => Fits
    OBVIOUS
  <1>a. \A n \in Notes : disk[n] \in 0..MaxTexts /\ (Exists(n) => disk[n] \in Texts)
    BY DEF TypeOK, Exists
  <1>1. ASSUME NEW t \in Threads, Removes(t) PROVE Fits
    <2> DEFINE j == [job[t] EXCEPT !.pc = "embed"]
    <2>1. j \in Job /\ JobFits(j) /\ job' = [job EXCEPT ![t] = j]
      BY <1>1 DEF Removes, Job, JobFits
    <2> HIDE DEF j, Fits
    <2> QED BY <1>0, <2>1
  <1>2. ASSUME NEW t \in Threads, NEW pc \in {"read", "remove"}, EmbedFails(t, pc) PROVE Fits
    BY <1>2, AfterThrough DEF EmbedFails
  <1>3. ASSUME NEW t \in Threads, NEW pc \in {"read", "remove"}, Stores(t, pc) PROVE Fits
    <2>1. CASE job[t].next = Sizes[job[t].text]
      BY <1>3, <2>1, AfterThrough DEF Stores
    <2>2. CASE job[t].next # Sizes[job[t].text]
      <3> DEFINE j == [job[t] EXCEPT !.pc = "store", !.next = job[t].next + 1]
      <3>1. job[t] \in Job /\ JobFits(job[t]) /\ job' = [job EXCEPT ![t] = j]
        BY <1>3, <2>2 DEF Stores
      <3>2. j \in Job /\ j.note = job[t].note /\ j.pc = "store" /\ j.text = job[t].text
            /\ j.tool = job[t].tool /\ j.own = job[t].own
        <4>1. job[t].next + 1 \in Nat \ {0}
          BY <3>1 DEF Job
        <4> DEFINE next == job[t].next + 1
        <4> HIDE DEF next
        <4>2. next \in Nat \ {0} /\ j = [job[t] EXCEPT !.pc = "store", !.next = next]
          BY <4>1 DEF next
        <4> HIDE DEF j
        <4> QED BY <3>1, <4>2 DEF Job
      <3> HIDE DEF j, Fits
      <3>3. JobFits(j)
        BY <1>3, <3>1, <3>2 DEF Stores, JobFits
      <3> QED BY <1>0, <3>1, <3>2, <3>3
    <2> QED BY <2>1, <2>2
  <1>4. ASSUME NEW n \in Notes, NEW tool \in Tools \cup {Lock}, Writes(n, tool) PROVE Fits
    <2> DEFINE text == texts + 1
               j == [Idle EXCEPT !.pc = "remove", !.note = n, !.text = text, !.own = text, !.tool = tool]
    <2>1. text \in Texts /\ text \in 0..MaxTexts
      BY <1>4, BoundsAssumption DEF Writes, Texts
    <2>2. job' = [job EXCEPT ![tool] = Idle, ![Lock] = j] /\ Lock \in Threads /\ tool \in Threads
      BY <1>4, LockIsNoTool DEF Writes, Threads
    <2> HIDE DEF text
    <2>3. j \in Job /\ JobFits(j)
      BY <2>1, WrittenFor
    <2> HIDE DEF j
    <2> QED BY <2>2, <2>3, IdleFits
  <1>5. ASSUME NEW n \in Notes, NEW tool \in Tools \cup {Lock}, Deletes(n, tool) PROVE Fits
    <2> DEFINE j == [Idle EXCEPT !.pc = "drop", !.note = n]
    <2>1. j \in Job /\ JobFits(j)
      BY IdleFor DEF Idle
    <2>2. job' = job \/ (job' = [job EXCEPT ![tool] = j] /\ tool \in Threads)
      BY <1>5 DEF Deletes, Threads
    <2>3. Fits \/ ~(job' = job)
      OBVIOUS
    <2> HIDE DEF j, Fits
    <2> QED BY <1>0, <2>1, <2>2, <2>3
  <1>6. ASSUME NEW t \in Tools, Drops(t) PROVE Fits
    BY <1>6, IdleFits DEF Drops, Threads
  <1>7. ASSUME NEW t \in Tools, Reads(t) PROVE Fits
    <2> DEFINE n == job[t].note
               j == [job[t] EXCEPT !.pc = "remove", !.text = disk[n]]
    <2>1. t \in Threads /\ n \in Notes
      BY <1>7 DEF Reads, Threads, JobFits
    <2>2. CASE Exists(n)
      <3>1. j \in Job /\ JobFits(j)
        BY <1>7, <1>a, <2>1, <2>2 DEF Reads, Job, JobFits
      <3>2. job' = [job EXCEPT ![t] = j]
        BY <1>7, <2>2 DEF Reads
      <3> HIDE DEF j, Fits
      <3> QED BY <1>0, <2>1, <3>1, <3>2
    <2>3. CASE ~Exists(n)
      <3>1. job' = [job EXCEPT ![t] = Idle]
        BY <1>7, <2>3 DEF Reads
      <3> HIDE DEF j, Fits
      <3> QED BY <1>0, <2>1, <3>1, IdleFits
    <2> QED BY <2>2, <2>3
  <1>8. ASSUME NEW n \in Notes, Imports(n) PROVE Fits
    <2> DEFINE j == [Idle EXCEPT !.pc = "list", !.note = n]
    <2>1. j \in Job /\ JobFits(j) /\ job' = [job EXCEPT ![Import] = j]
      BY <1>8, IdleFor DEF Imports
    <2> HIDE DEF j, Fits
    <2> QED BY <1>0, <2>1, LockIsNoTool
  <1>9. ASSUME Lists PROVE Fits
    <2> DEFINE j == [job[Import] EXCEPT !.pc = "clear"]
    <2>1. j \in Job /\ JobFits(j) /\ job' = [job EXCEPT ![Import] = j]
      BY <1>9, LockIsNoTool DEF Lists, Job, JobFits
    <2> HIDE DEF j, Fits
    <2> QED BY <1>0, <2>1, LockIsNoTool
  <1>10. ASSUME Empties PROVE Fits
    BY <1>10, IdleFits, LockIsNoTool DEF Empties
  <1>11. ASSUME NEW n \in Notes, IndexesNext(n) PROVE Fits
    <2> DEFINE j == [Idle EXCEPT !.pc = "remove", !.note = n, !.text = todo[n]]
    <2>1. todo[n] \in Texts /\ todo[n] \in 0..MaxTexts
      BY <1>11 DEF IndexesNext, Texts
    <2>2. j \in Job /\ JobFits(j) /\ job' = [job EXCEPT ![Import] = j]
      BY <1>11, <2>1, IdleFor DEF IndexesNext
    <2> HIDE DEF j, Fits
    <2> QED BY <1>0, <2>2, LockIsNoTool
  <1>12. ASSUME NEW failed \in SUBSET Notes, Restart(failed) PROVE Fits
    BY <1>12, IdleFits DEF Restart
  <1>13. ASSUME Extracts PROVE Fits
    <2> DEFINE text == texts + 1
               j == [job[Lock] EXCEPT !.text = text, !.again = TRUE]
    <2>1. text \in Texts /\ text \in 0..MaxTexts
      BY <1>13, BoundsAssumption DEF Extracts, Texts
    <2>2. /\ job' = [job EXCEPT ![Lock] = j] /\ job[Lock] \in Job /\ JobFits(job[Lock])
          /\ job[Lock].pc = "remove"
      BY <1>13, LockIsNoTool DEF Extracts
    <2> HIDE DEF text
    <2>3. /\ j \in Job /\ j.pc = "remove" /\ j.note = job[Lock].note /\ j.text = text
          /\ j.own = job[Lock].own /\ j.next = job[Lock].next /\ j.tool = job[Lock].tool
      BY <2>1, <2>2 DEF Job
    <2> HIDE DEF j
    <2>4. JobFits(j)
      BY <2>1, <2>2, <2>3 DEF JobFits
    <2> HIDE DEF Fits
    <2> QED BY <1>0, <2>2, <2>3, <2>4, LockIsNoTool
  <1>14. ASSUME UNCHANGED vars PROVE Fits
    BY <1>14 DEF vars
  <1> HIDE DEF Fits
  <1>15. Fits
    BY <1>1, <1>2, <1>3, <1>4, <1>5, <1>6, <1>7, <1>8, <1>9, <1>10, <1>11, <1>12, <1>13, <1>14
       DEF Next, Indexing
  <1> QED BY <1>15 DEF Fits

\* The rest of JobInv.
LEMMA JobStep == ASSUME IInv, [Next]_vars PROVE JobInv'
  <1> USE DEF IInv, JobInv
  <1> DEFINE Rest == /\ texts' \in 0..MaxTexts
                     /\ job'[Lock].pc \in {"idle", "remove", "embed", "store"}
                     /\ job'[Lock].tool # Lock => job'[job'[Lock].tool] = Idle
                     /\ \A t \in Threads : t # Lock => job'[t].tool = Lock /\ ~job'[t].again
                     /\ job'[Import].pc = "list" => todo' = <<>>
                     /\ \A n \in DOMAIN todo' : todo'[n] \in Texts
  <1>a. job[Lock].tool \in Tools \cup {Lock} /\ \A t \in Tools : t \in Threads
    BY LockIsNoTool DEF Job, Threads
  <1>b. Idle.pc = "idle" /\ Idle.tool = Lock /\ ~Idle.again
    BY DEF Idle
  <1>1. ASSUME NEW t \in Threads, Removes(t) PROVE Rest
    <2>1. job' = [job EXCEPT ![t].pc = "embed"] /\ job[t].pc = "remove" /\ UNCHANGED <<todo, texts>>
      BY <1>1 DEF Removes, counts
    <2>2. job[Lock].tool # Lock => job[Lock].tool # t
      BY <2>1, <1>b
    <2> QED BY <2>1, <2>2, <1>a, LockIsNoTool DEF Job
  <1>2. ASSUME NEW t \in Threads, NEW pc \in {"read", "remove"}, Through(t, pc),
               job[t].pc \in {"embed", "store"}, UNCHANGED <<todo, texts>>
        PROVE  Rest
    <2>1. CASE t = Lock
      BY <1>2, <1>a, <1>b, <2>1, AfterThrough, LockIsNoTool
    <2>2. CASE t # Lock
      <3>1. job' = [job EXCEPT ![t] = Idle]
        BY <1>2, <2>2, LockIsNoTool DEF Through
      <3> QED BY <1>2, <3>1, <2>2, <1>a, <1>b, LockIsNoTool
    <2> QED BY <2>1, <2>2
  <1>3. ASSUME NEW t \in Threads, NEW pc \in {"read", "remove"}, Stores(t, pc) PROVE Rest
    <2>1. CASE job[t].next = Sizes[job[t].text]
      BY <1>2, <1>3, <2>1 DEF Stores, counts
    <2>2. CASE job[t].next # Sizes[job[t].text]
      <3>1. /\ job' = [job EXCEPT ![t].pc = "store", ![t].next = job[t].next + 1]
            /\ job[t].pc \in {"embed", "store"} /\ UNCHANGED <<todo, texts>>
        BY <1>3, <2>2 DEF Stores, counts
      <3>2. job[Lock].tool # Lock => job[Lock].tool # t
        BY <3>1, <1>b
      <3>3. job'[t].pc = "store" /\ job'[t].tool = job[t].tool /\ job'[t].again = job[t].again
            /\ \A u \in Threads \ {t} : job'[u] = job[u]
        BY <3>1 DEF Job
      <3> QED BY <3>1, <3>2, <3>3, <1>a, LockIsNoTool
    <2> QED BY <2>1, <2>2
  <1>4. ASSUME NEW n \in Notes, NEW tool \in Tools \cup {Lock}, Writes(n, tool) PROVE Rest
    <2>1. job' = [job EXCEPT ![tool] = Idle,
                             ![Lock] = [Idle EXCEPT !.pc = "remove", !.note = n, !.text = texts + 1,
                                                    !.own = texts + 1, !.tool = tool]]
      BY <1>4 DEF Writes
    <2>2. texts' \in 0..MaxTexts
      BY <1>4, BoundsAssumption DEF Writes
    <2>3. job'[Lock].pc = "remove" /\ job'[Lock].tool = tool /\ (tool # Lock => job'[tool] = Idle)
          /\ \A u \in Threads \ {Lock} : job'[u] = job[u] \/ job'[u] = Idle
      BY <2>1, <1>a, LockIsNoTool DEF Idle
    <2>4. job[Import].pc = "list" <=> job'[Import].pc = "list"
      BY <2>1, LockIsNoTool
    <2> QED BY <1>4, <1>b, <2>2, <2>3, <2>4, <1>a, LockIsNoTool DEF Writes
  <1>5. ASSUME NEW n \in Notes, NEW tool \in Tools \cup {Lock}, Deletes(n, tool) PROVE Rest
    <2>1. \A u \in Threads \ {tool} : job'[u] = job[u]
      BY <1>5 DEF Deletes
    <2>2. tool = Lock => job' = job
      BY <1>5 DEF Deletes
    <2>3. job[Lock] = Idle /\ UNCHANGED <<todo, texts>>
      BY <1>5 DEF Deletes, LockFree, counts
    <2>4. tool # Lock => job'[tool].tool = Lock /\ ~job'[tool].again
      BY <1>5, <1>a DEF Deletes, Idle
    <2> QED BY <2>1, <2>2, <2>3, <2>4, <1>a, <1>b, LockIsNoTool
  <1>6. ASSUME NEW t \in Tools, Drops(t) PROVE Rest
    <2>1. job' = [job EXCEPT ![t] = Idle] /\ UNCHANGED <<todo, texts>>
      BY <1>6 DEF Drops, counts
    <2> QED BY <2>1, <1>a, <1>b, LockIsNoTool
  <1>7. ASSUME NEW t \in Tools, Reads(t) PROVE Rest
    <2>1. job[Lock] = Idle /\ UNCHANGED <<todo, texts>> /\ \A u \in Threads \ {t} : job'[u] = job[u]
      BY <1>7 DEF Reads, counts, LockFree
    <2>2. job'[t].tool = Lock /\ ~job'[t].again
      <3>1. t # Lock /\ t \in Threads /\ job[t].tool = Lock /\ ~job[t].again /\ job[t] \in Job
        BY <1>a, LockIsNoTool
      <3>2. job'[t] = IF Exists(job[t].note)
                      THEN [job[t] EXCEPT !.pc = "remove", !.text = disk[job[t].note]] ELSE Idle
        BY <1>7, <3>1 DEF Reads
      <3> QED BY <3>1, <3>2, <1>b DEF Job
    <2> QED BY <2>1, <2>2, <1>a, <1>b, LockIsNoTool
  <1>8. ASSUME NEW n \in Notes, Imports(n) PROVE Rest
    <2>1. /\ job[Lock] = Idle /\ todo = <<>> /\ UNCHANGED todo
          /\ \A u \in Threads \ {Import} : job'[u] = job[u]
      BY <1>8 DEF Imports, LockFree
    <2>2. texts' \in 0..MaxTexts
      BY <1>8, BoundsAssumption DEF Imports
    <2>3. job'[Import].tool = Lock /\ ~job'[Import].again
      BY <1>8, LockIsNoTool DEF Imports, Idle
    <2> QED BY <2>1, <2>2, <2>3, <1>a, <1>b, LockIsNoTool
  <1>9. ASSUME Lists PROVE Rest
    <2>1. /\ job[Lock] = Idle /\ UNCHANGED texts /\ job'[Import].pc = "clear"
          /\ \A u \in Threads \ {Import} : job'[u] = job[u]
      BY <1>9, LockIsNoTool DEF Lists, LockFree, counts, Job
    <2>2. \A n \in DOMAIN todo' : todo'[n] \in Texts
      BY <1>9 DEF Lists, Exists
    <2>3. job'[Import].tool = Lock /\ ~job'[Import].again
      BY <1>9, LockIsNoTool DEF Lists, Job
    <2> QED BY <2>1, <2>2, <2>3, <1>a, <1>b, LockIsNoTool
  <1>10. ASSUME Empties PROVE Rest
    <2>1. job' = [job EXCEPT ![Import] = Idle] /\ UNCHANGED <<todo, texts>>
      BY <1>10 DEF Empties, counts
    <2> QED BY <2>1, <1>a, <1>b, LockIsNoTool
  <1>11. ASSUME NEW n \in Notes, IndexesNext(n) PROVE Rest
    <2>1. /\ job' = [job EXCEPT ![Import] = [Idle EXCEPT !.pc = "remove", !.note = n, !.text = todo[n]]]
          /\ UNCHANGED texts /\ job[Import] = Idle
      BY <1>11 DEF IndexesNext, counts
    <2>2. job'[Import].pc = "remove" /\ \A u \in Threads \ {Import} : job'[u] = job[u]
      BY <2>1, LockIsNoTool DEF Idle
    <2>3. \A m \in DOMAIN todo' : todo'[m] \in Texts
      BY <1>11 DEF IndexesNext, Restrict
    <2>4. job[Lock].tool # Import
      BY <1>a, LockIsNoTool
    <2> QED BY <2>1, <2>2, <2>3, <2>4, <1>a, LockIsNoTool
  <1>12. ASSUME NEW failed \in SUBSET Notes, Restart(failed) PROVE Rest
    BY <1>12, <1>b, LockIsNoTool DEF Restart
  <1>13. ASSUME UNCHANGED vars PROVE Rest
    BY <1>13 DEF vars, counts
  <1>14. ASSUME NEW t \in Threads, NEW pc \in {"read", "remove"}, EmbedFails(t, pc) PROVE Rest
    BY <1>2, <1>14 DEF EmbedFails
  <1>15. ASSUME Extracts PROVE Rest
    <2>1. job' = [job EXCEPT ![Lock] = [job[Lock] EXCEPT !.text = texts + 1, !.again = TRUE]]
          /\ job[Lock].pc = "remove" /\ todo' = todo
      BY <1>15 DEF Extracts
    <2>2. texts' \in 0..MaxTexts
      BY <1>15, BoundsAssumption DEF Extracts
    <2>3. job'[Lock].pc = "remove" /\ job'[Lock].tool = job[Lock].tool
          /\ \A u \in Threads \ {Lock} : job'[u] = job[u]
      BY <2>1, LockIsNoTool DEF Job
    <2> QED BY <2>1, <2>2, <2>3, <1>a, LockIsNoTool
  <1>16. Rest
    <2> HIDE DEF Rest
    <2> QED BY <1>1, <1>3, <1>4, <1>5, <1>6, <1>7, <1>8, <1>9, <1>10, <1>11, <1>12, <1>13, <1>14,
               <1>15 DEF Next, Indexing
  <1> QED BY <1>16, JobFitsStep

-----------------------------------------------------------------------------
LEMMA IndexOfTypes == \A text \in 0..MaxTexts : IndexOf(text) \in [Chunks -> 0..MaxTexts]
  BY BoundsAssumption DEF IndexOf, Texts

\* An index, cleared of one note or with one more chunk in.
LEMMA EntriesTypes ==
    ASSUME IInv
    PROVE  /\ \A n \in Notes : [entries EXCEPT ![n] = IndexOf(0)]
                                  \in [Notes -> [Chunks -> 0..MaxTexts]]
           /\ \A n \in Notes, c \in Nat, text \in Texts :
                 [entries EXCEPT ![n][c] = text] \in [Notes -> [Chunks -> 0..MaxTexts]]
  <1>1. 0 \in 0..MaxTexts /\ Texts \subseteq 0..MaxTexts
    BY BoundsAssumption DEF Texts
  <1>2. entries \in [Notes -> [Chunks -> 0..MaxTexts]]
    BY DEF IInv, TypeOK
  <1>3. IndexOf(0) \in [Chunks -> 0..MaxTexts]
    BY <1>1, IndexOfTypes
  <1>4. ASSUME NEW n \in Notes, NEW c \in Nat, NEW text \in Texts
        PROVE  [entries EXCEPT ![n][c] = text] \in [Notes -> [Chunks -> 0..MaxTexts]]
    <2>1. [entries[n] EXCEPT ![c] = text] \in [Chunks -> 0..MaxTexts]
      BY <1>1, <1>2
    <2> QED BY <1>2, <2>1
  <1> QED BY <1>2, <1>3, <1>4

LEMMA TypeStep == ASSUME IInv, [Next]_vars PROVE TypeOK'
  <1> USE DEF IInv
  <1> DEFINE FitsTexts(j, d) ==
                 /\ j[Lock].pc # "idle" => j[Lock].text = d[j[Lock].note]
                 /\ \A t \in Threads : j[t].pc = "store" => j[t].next <= Sizes[j[t].text]
  <1>a. FitsTexts(job, disk) /\ Lock \in Threads /\ job[Lock].next \in Nat
    BY LockIsNoTool DEF TypeOK, JobInv, Job
  <1>b. disk \in [Notes -> 0..MaxTexts] /\ entries \in [Notes -> [Chunks -> 0..MaxTexts]]
        /\ DOMAIN todo \subseteq Notes /\ doubt \subseteq Notes
    BY DEF TypeOK
  <1>c. ASSUME /\ disk' \in [Notes -> 0..MaxTexts]
               /\ entries' \in [Notes -> [Chunks -> 0..MaxTexts]]
               /\ DOMAIN todo' \subseteq Notes /\ doubt' \subseteq Notes
               /\ FitsTexts(job', disk')
        PROVE  TypeOK'
    <2>1. \A t \in Threads : job'[t].pc
              \in {"idle", "read", "remove", "embed", "store", "drop", "list", "clear"}
      BY JobFitsStep DEF Job
    <2> QED BY <1>c, <2>1 DEF TypeOK
  <1>d. \A t \in Threads : job[t].pc # "idle" => job[t].note \in Notes
    BY DEF JobInv, JobFits
  <1>e. \A t \in Threads : job[t].pc \in {"embed", "store"} =>
            job[t].text \in Texts /\ job[t].next \in Nat
    BY DEF JobInv, JobFits, Job
  <1>f. job \in [Threads -> Job] /\ Idle.pc = "idle"
    BY DEF JobInv, Idle
  <1>1. ASSUME NEW t \in Threads, Removes(t) PROVE TypeOK'
    <2>1. /\ job'[t].pc = "embed" /\ job'[t].text = job[t].text /\ job'[t].note = job[t].note
          /\ \A u \in Threads \ {t} : job'[u] = job[u]
      BY <1>1, <1>f DEF Removes, Job
    <2>2. FitsTexts(job', disk')
      BY <1>1, <1>a, <2>1 DEF Removes
    <2>3. entries' \in [Notes -> [Chunks -> 0..MaxTexts]]
      BY <1>1, <1>d, EntriesTypes DEF Removes, Cleared
    <2>4. doubt' \subseteq Notes
      BY <1>1, <1>b, <1>d DEF Removes, Begins
    <2> QED BY <1>1, <1>b, <1>c, <2>2, <2>3, <2>4 DEF Removes
  <1>2. ASSUME NEW t \in Threads, NEW pc \in {"read", "remove"}, Through(t, pc),
               job[t].pc \in {"embed", "store"}, disk' = disk
        PROVE  FitsTexts(job', disk')
    <2>1. \/ job'[Lock] = job[Lock] \/ job'[Lock] = Idle
          \/ /\ job'[Lock].note = job[Lock].note /\ job'[Lock].text = job[Lock].text
             /\ job[Lock].pc # "idle"
      BY <1>2, AfterThrough, LockIsNoTool
    <2>2. \A u \in Threads : job'[u].pc = "store" => job'[u] = job[u]
      BY <1>2, <1>f, AfterThrough
    <2> QED BY <1>2, <1>a, <1>f, <2>1, <2>2
  <1>3. ASSUME NEW t \in Threads, NEW pc \in {"read", "remove"}, EmbedFails(t, pc) PROVE TypeOK'
    <2>1. FitsTexts(job', disk')
      BY <1>2, <1>3 DEF EmbedFails
    <2>2. doubt' \subseteq Notes
      BY <1>3, <1>b, <1>d DEF EmbedFails
    <2> QED BY <1>3, <1>b, <1>c, <2>1, <2>2 DEF EmbedFails
  <1>4. ASSUME NEW t \in Threads, NEW pc \in {"read", "remove"}, Stores(t, pc) PROVE TypeOK'
    <2>1. entries' \in [Notes -> [Chunks -> 0..MaxTexts]]
      BY <1>4, <1>d, <1>e, EntriesTypes DEF Stores
    <2>2. FitsTexts(job', disk')
      <3>1. CASE job[t].next = Sizes[job[t].text]
        BY <1>2, <1>4, <3>1 DEF Stores
      <3>2. CASE job[t].next # Sizes[job[t].text]
        <4>1. job' = [job EXCEPT ![t].pc = "store", ![t].next = job[t].next + 1]
          BY <1>4, <3>2 DEF Stores
        <4>2. /\ job'[t].text = job[t].text /\ job'[t].note = job[t].note
              /\ job'[t].next = job[t].next + 1 /\ job[t].next \in Nat \ {0}
              /\ \A u \in Threads \ {t} : job'[u] = job[u]
          BY <4>1, <1>f DEF Job
        <4>3. Sizes[job[t].text] \in Nat \ {0}
          BY <1>4, <1>e, ChunksOfTexts DEF Stores
        <4>4. job[t].next <= Sizes[job[t].text]
          <5>1. CASE job[t].pc = "store"
            BY <1>a, <5>1
          <5>2. CASE job[t].pc = "embed"
            BY <4>3, <5>2 DEF JobInv, JobFits
          <5> QED BY <1>4, <5>1, <5>2 DEF Stores
        <4> QED BY <1>4, <1>a, <4>2, <4>3, <4>4, <3>2 DEF Stores
      <3> QED BY <3>1, <3>2
    <2> QED BY <1>4, <1>b, <1>c, <2>1, <2>2 DEF Stores
  <1>5. ASSUME NEW n \in Notes, NEW tool \in Tools \cup {Lock}, Writes(n, tool) PROVE TypeOK'
    <2>1. /\ job' = [job EXCEPT ![tool] = Idle,
                                ![Lock] = [Idle EXCEPT !.pc = "remove", !.note = n, !.text = texts + 1,
                                                       !.own = texts + 1, !.tool = tool]]
          /\ disk' = [disk EXCEPT ![n] = texts + 1]
      BY <1>5 DEF Writes
    <2>2. FitsTexts(job', disk')
      <3>1. job'[Lock].pc = "remove" /\ job'[Lock].note = n /\ job'[Lock].text = disk'[n]
        BY <2>1, <1>a, <1>b, <1>f DEF Idle
      <3>2. \A u \in Threads : job'[u].pc = "store" => job'[u] = job[u]
        BY <2>1, <3>1, <1>a, <1>f
      <3> QED BY <3>1, <3>2, <1>a
    <2>3. disk' \in [Notes -> 0..MaxTexts]
      BY <1>5, <1>b, BoundsAssumption DEF Writes, JobInv
    <2>4. doubt' \subseteq Notes
      BY <1>5, <1>b DEF Writes, Begins
    <2> QED BY <1>5, <1>b, <1>c, <2>2, <2>3, <2>4 DEF Writes
  <1>6. ASSUME NEW n \in Notes, NEW tool \in Tools \cup {Lock}, Deletes(n, tool) PROVE TypeOK'
    <2>1. disk' \in [Notes -> 0..MaxTexts]
      BY <1>6, <1>b, BoundsAssumption DEF Deletes
    <2>2. entries' \in [Notes -> [Chunks -> 0..MaxTexts]]
      BY <1>6, EntriesTypes DEF Deletes
    <2>3. doubt' \subseteq Notes
      BY <1>6, <1>b DEF Deletes, Begins
    <2>4. FitsTexts(job', disk')
      <3>1. job[Lock] = Idle
        BY <1>6 DEF Deletes, LockFree
      <3>2. CASE tool = Lock
        BY <1>6, <3>1, <3>2, <1>a, <1>f DEF Deletes
      <3>3. CASE tool # Lock
        <4>1. job' = [job EXCEPT ![tool] = [Idle EXCEPT !.pc = "drop", !.note = n]]
          BY <1>6, <3>3 DEF Deletes
        <4>2. job'[Lock] = Idle /\ \A u \in Threads : job'[u].pc = "store" => job'[u] = job[u]
          BY <4>1, <3>1, <3>3, <1>f DEF Idle
        <4> QED BY <4>2, <1>a, <1>f
      <3> QED BY <3>2, <3>3
    <2> QED BY <1>6, <1>b, <1>c, <2>1, <2>2, <2>3, <2>4 DEF Deletes
  <1>7. ASSUME NEW t \in Tools, Drops(t) PROVE TypeOK'
    <2>1. t \in Threads /\ t # Lock
      BY LockIsNoTool DEF Threads
    <2>2. entries' \in [Notes -> [Chunks -> 0..MaxTexts]]
      BY <1>7, <1>d, <2>1, EntriesTypes DEF Drops, Cleared
    <2>3. doubt' \subseteq Notes
      BY <1>7, <1>b, <1>d, <2>1 DEF Drops, Begins
    <2>4. FitsTexts(job', disk')
      BY <1>7, <2>1, <1>a, <1>f DEF Drops
    <2> QED BY <1>7, <1>b, <1>c, <2>2, <2>3, <2>4 DEF Drops
  <1>8. ASSUME NEW t \in Tools, Reads(t) PROVE TypeOK'
    <2>1. t # Lock
      BY LockIsNoTool
    <2>2. job'[t].pc # "store" /\ \A u \in Threads \ {t} : job'[u] = job[u]
      BY <1>8, <1>f DEF Reads, Job, Idle, Threads
    <2>3. FitsTexts(job', disk')
      BY <1>8, <2>1, <2>2, <1>a, <1>f DEF Reads
    <2> QED BY <1>8, <1>b, <1>c, <2>3 DEF Reads
  <1>9. ASSUME NEW n \in Notes, Imports(n) PROVE TypeOK'
    <2>1. disk' \in [Notes -> 0..MaxTexts]
      BY <1>9, <1>b, BoundsAssumption DEF Imports, JobInv
    <2>2. job' = [job EXCEPT ![Import] = [Idle EXCEPT !.pc = "list", !.note = n]] /\ job[Lock] = Idle
      BY <1>9 DEF Imports, LockFree
    <2>3. job'[Lock] = Idle /\ \A u \in Threads : job'[u].pc = "store" => job'[u] = job[u]
      BY <2>2, <1>f, LockIsNoTool DEF Idle
    <2>4. FitsTexts(job', disk')
      BY <2>3, <1>a, <1>f
    <2> QED BY <1>9, <1>b, <1>c, <2>1, <2>4 DEF Imports
  <1>10. ASSUME Lists PROVE TypeOK'
    <2>1. DOMAIN todo' \subseteq Notes
      BY <1>10 DEF Lists
    <2>2. \A u \in Threads : job'[u].pc = "store" => job'[u] = job[u]
      BY <1>10, <1>f, LockIsNoTool DEF Lists, Job
    <2>3. job'[Lock] = job[Lock]
      BY <1>10, <1>f, LockIsNoTool DEF Lists
    <2>4. FitsTexts(job', disk')
      BY <1>10, <2>2, <2>3, <1>a DEF Lists
    <2> QED BY <1>10, <1>b, <1>c, <2>1, <2>4 DEF Lists
  <1>11. ASSUME Empties PROVE TypeOK'
    <2>1. entries' \in [Notes -> [Chunks -> 0..MaxTexts]]
      BY <1>11, IndexOfTypes, BoundsAssumption DEF Empties
    <2>2. doubt' \subseteq Notes
      BY <1>11, <1>b DEF Empties
    <2>3. FitsTexts(job', disk')
      BY <1>11, <1>a, <1>f, LockIsNoTool DEF Empties
    <2> QED BY <1>11, <1>b, <1>c, <2>1, <2>2, <2>3 DEF Empties
  <1>12. ASSUME NEW n \in Notes, IndexesNext(n) PROVE TypeOK'
    <2>1. DOMAIN todo' \subseteq Notes
      BY <1>12, <1>b DEF IndexesNext, Restrict
    <2>2. job' = [job EXCEPT ![Import] = [Idle EXCEPT !.pc = "remove", !.note = n, !.text = todo[n]]]
      BY <1>12 DEF IndexesNext
    <2>3. job'[Lock] = job[Lock] /\ \A u \in Threads : job'[u].pc = "store" => job'[u] = job[u]
      BY <2>2, <1>f, LockIsNoTool DEF Idle
    <2>4. FitsTexts(job', disk')
      BY <1>12, <2>3, <1>a DEF IndexesNext
    <2> QED BY <1>12, <1>b, <1>c, <2>1, <2>4 DEF IndexesNext
  <1>13. ASSUME NEW failed \in SUBSET Notes, Restart(failed) PROVE TypeOK'
    <2>1. entries' \in [Notes -> [Chunks -> 0..MaxTexts]]
      <3>1. \A n \in Notes : IndexOf(IF n \in failed THEN 0 ELSE disk[n]) \in [Chunks -> 0..MaxTexts]
        BY <1>b, IndexOfTypes, BoundsAssumption
      <3> QED BY <1>13, <3>1 DEF Restart
    <2>2. FitsTexts(job', disk')
      BY <1>13, <1>a, <1>f DEF Restart
    <2>3. DOMAIN todo' = {}
      BY <1>13 DEF Restart
    <2> QED BY <1>13, <1>b, <1>c, <2>1, <2>2, <2>3 DEF Restart
  <1>14. ASSUME UNCHANGED vars PROVE TypeOK'
    BY <1>14 DEF vars, TypeOK
  <1>15. ASSUME Extracts PROVE TypeOK'
    <2>1. /\ job' = [job EXCEPT ![Lock] = [job[Lock] EXCEPT !.text = texts + 1, !.again = TRUE]]
          /\ disk' = [disk EXCEPT ![job[Lock].note] = texts + 1]
          /\ job[Lock].pc = "remove" /\ job[Lock].note \in Notes
      BY <1>15, <1>a, <1>d DEF Extracts
    <2>2. disk' \in [Notes -> 0..MaxTexts]
      BY <1>15, <2>1, <1>b, BoundsAssumption DEF Extracts, JobInv
    <2>3. /\ job'[Lock].pc = "remove" /\ job'[Lock].note = job[Lock].note
          /\ job'[Lock].text = texts + 1 /\ \A u \in Threads \ {Lock} : job'[u] = job[u]
      BY <2>1, <1>a, <1>f DEF Job
    <2>4. FitsTexts(job', disk')
      BY <2>1, <2>3, <1>a, <1>b
    <2> QED BY <1>15, <1>b, <1>c, <2>2, <2>4 DEF Extracts
  <1> HIDE DEF FitsTexts
  <1> QED BY <1>1, <1>3, <1>4, <1>5, <1>6, <1>7, <1>8, <1>9, <1>10, <1>11, <1>12, <1>13, <1>14,
             <1>15 DEF Next, Indexing

-----------------------------------------------------------------------------
(* A note that is not in doubt, step by step. *)

\* NoteInv after a step, with the new values spelled out.
NoteInvOf(n, jobs, text, chunks, pending) ==
    /\ \A t, u \in Threads : ActiveIn(t, jobs[t], n) /\ ActiveIn(u, jobs[u], n) => t = u
    /\ \A t \in Threads : ActiveIn(t, jobs[t], n) => jobs[t].text = text
    /\ ~pending =>
          /\ \A t \in Threads : ActiveIn(t, jobs[t], n) /\ jobs[t].pc # "remove" =>
                 chunks = Prefix(jobs[t].text, jobs[t].next)
          /\ (\A t \in Threads : ~ActiveIn(t, jobs[t], n)) => chunks = IndexOf(text)

LEMMA NoteInvIs ==
    ASSUME NEW n \in Notes
    PROVE  /\ NoteInv(n) <=> (n \notin doubt =>
                                 NoteInvOf(n, job, disk[n], entries[n], Pending(n)))
           /\ NoteInv(n)' <=> (n \notin doubt' =>
                                 NoteInvOf(n, job', disk'[n], entries'[n], Pending(n)'))
  BY DEF NoteInv, NoteInvOf, Active

\* A step that is about other notes.
LEMMA OtherNotes ==
    ASSUME IInv, NEW m \in Notes, m \notin doubt' => m \notin doubt,
           disk'[m] = disk[m], entries'[m] = entries[m], Pending(m) => Pending(m)',
           \A t \in Threads : \/ job'[t] = job[t]
                              \/ ~ActiveIn(t, job[t], m) /\ ~ActiveIn(t, job'[t], m)
    PROVE  NoteInv(m)'
  <1> SUFFICES ASSUME m \notin doubt'
               PROVE  NoteInvOf(m, job', disk'[m], entries'[m], Pending(m)')
    BY NoteInvIs
  <1>1. NoteInvOf(m, job, disk[m], entries[m], Pending(m))
    BY NoteInvIs DEF IInv
  <1>2. \A t \in Threads : ActiveIn(t, job'[t], m) => job'[t] = job[t]
    OBVIOUS
  <1>3. \A t \in Threads : ActiveIn(t, job'[t], m) <=> ActiveIn(t, job[t], m)
    OBVIOUS
  <1> HIDE DEF Pending
  <1> QED BY <1>1, <1>2, <1>3 DEF NoteInvOf

\* A step after which no thread indexes the note and its index is that of its text.
LEMMA NobodyLeft ==
    ASSUME NEW m \in Notes, \A t \in Threads : ~ActiveIn(t, job'[t], m),
           m \notin doubt' => entries'[m] = IndexOf(disk'[m])
    PROVE  NoteInv(m)'
  BY NoteInvIs DEF NoteInvOf

\* A step after which one thread alone may index the note.
LEMMA OneLeft ==
    ASSUME NEW m \in Notes, NEW u \in Threads, ActiveIn(u, job'[u], m),
           m \notin doubt' =>
              /\ \A t \in Threads \ {u} : ~ActiveIn(t, job'[t], m)
              /\ job'[u].text = disk'[m]
              /\ ~Pending(m)' /\ job'[u].pc # "remove"
                    => entries'[m] = Prefix(job'[u].text, job'[u].next)
    PROVE  NoteInv(m)'
  <1> SUFFICES ASSUME m \notin doubt'
               PROVE  NoteInvOf(m, job', disk'[m], entries'[m], Pending(m)')
    BY NoteInvIs
  <1> QED BY DEF NoteInvOf

LEMMA PrefixSteps ==
    /\ \A text \in Texts : /\ IndexOf(0) = Prefix(text, 1)
                           /\ Prefix(text, Sizes[text] + 1) = IndexOf(text)
    /\ \A text \in Texts, next \in Nat :
          [Prefix(text, next) EXCEPT ![next] = text] = Prefix(text, next + 1)
  <1>1. Chunks \subseteq Nat /\ \A c \in Chunks : c >= 1
    BY ChunksOfTexts DEF Chunks
  <1>2. \A text \in Texts : Sizes[text] \in Nat
    BY ChunksOfTexts
  <1>3. 0 \notin Texts
    BY DEF Texts
  <1>4. ASSUME NEW text \in Texts
        PROVE  IndexOf(0) = Prefix(text, 1) /\ Prefix(text, Sizes[text] + 1) = IndexOf(text)
    <2>1. \A c \in Chunks : ~(c < 1)
      BY <1>1
    <2>2. \A c \in Chunks : c < Sizes[text] + 1 <=> c <= Sizes[text]
      BY <1>1, <1>2
    <2>3. IndexOf(0) = Prefix(text, 1)
      BY <1>3, <2>1 DEF Prefix, IndexOf
    <2> QED BY <2>2, <2>3 DEF Prefix, IndexOf
  <1>5. ASSUME NEW text \in Texts, NEW next \in Nat
        PROVE  [Prefix(text, next) EXCEPT ![next] = text] = Prefix(text, next + 1)
    <2>1. \A c \in Chunks : c < next + 1 <=> c < next \/ c = next
      BY <1>1
    <2> QED BY <2>1 DEF Prefix
  <1> QED BY <1>4, <1>5

LEMMA RemovesNote ==
    ASSUME IInv, NEW t \in Threads, Removes(t), NEW m \in Notes
    PROVE  NoteInv(m)'
  <1> USE DEF IInv
  <1> DEFINE n == job[t].note
  <1>1. /\ job'[t].pc = "embed" /\ job'[t].text = job[t].text /\ job'[t].note = n
        /\ job'[t].next = 1 /\ job[t].pc = "remove" /\ n \in Notes /\ job[t].text \in Texts
        /\ \A u \in Threads \ {t} : job'[u] = job[u]
    BY DEF Removes, JobInv, JobFits, Job
  <1>2. disk' = disk /\ todo' = todo /\ entries' = [entries EXCEPT ![n] = IndexOf(0)]
        /\ entries \in [Notes -> [Chunks -> 0..MaxTexts]]
    BY DEF Removes, Cleared, TypeOK
  <1>3. doubt' = IF disk[n] = job[t].text /\ ~Met({t}, n) THEN doubt \ {n} ELSE doubt \cup {n}
    BY DEF Removes, Begins
  <1>5. CASE m # n
    <2>1. m \notin doubt' => m \notin doubt
      BY <1>3, <1>5
    <2>2. Pending(m) => Pending(m)'
      BY <1>1, <1>2, <1>5, LockIsNoTool DEF Pending
    <2>3. entries'[m] = entries[m] /\ disk'[m] = disk[m]
      BY <1>2, <1>5
    <2>4. \A u \in Threads : \/ job'[u] = job[u]
                             \/ ~ActiveIn(u, job[u], m) /\ ~ActiveIn(u, job'[u], m)
      BY <1>1, <1>5 DEF ActiveIn
    <2> QED BY <2>1, <2>2, <2>3, <2>4, OtherNotes
  <1>6. CASE m = n
    <2>1. ActiveIn(t, job'[t], m)
      BY <1>1, <1>6 DEF ActiveIn
    <2>2. entries'[m] = Prefix(job'[t].text, job'[t].next)
      BY <1>1, <1>2, <1>6, PrefixSteps
    <2>3. m \notin doubt' => disk[m] = job[t].text /\ ~Met({t}, m)
      BY <1>3, <1>6
    <2>4. m \notin doubt' => \A u \in Threads \ {t} : ~ActiveIn(u, job[u], m)
      BY <2>3 DEF Met, ActiveIn
    <2> QED BY <1>1, <1>2, <2>1, <2>2, <2>3, <2>4, OneLeft
  <1> QED BY <1>5, <1>6

\* Steps that end a thread's indexing of n, and may hand n to a tool, leave the
\* other notes alone.
LEMMA ThroughLeaves ==
    ASSUME IInv, NEW t \in Threads, job[t].pc \in {"embed", "store"},
           NEW pc \in {"read", "remove"}, Through(t, pc), todo' = todo,
           NEW m \in Notes, m # job[t].note
    PROVE  /\ Pending(m) => Pending(m)'
           /\ \A u \in Threads : \/ job'[u] = job[u]
                                 \/ ~ActiveIn(u, job[u], m) /\ ~ActiveIn(u, job'[u], m)
  <1>1. NoNote # m /\ Idle.note = NoNote
    BY NotesAssumption DEF Idle
  <1>2. \A u \in Threads : \/ job'[u] = job[u]
                           \/ ~ActiveIn(u, job[u], m) /\ ~ActiveIn(u, job'[u], m)
    BY <1>1, AfterThrough DEF ActiveIn
  <1>3. Pending(m) => Pending(m)'
    BY AfterThrough, LockIsNoTool DEF Pending
  <1> QED BY <1>2, <1>3

LEMMA EmbedFailsNote ==
    ASSUME IInv, NEW t \in Threads, NEW pc \in {"read", "remove"}, EmbedFails(t, pc), NEW m \in Notes
    PROVE  NoteInv(m)'
  <1>1. CASE m = job[t].note
    BY <1>1, NoteInvIs DEF EmbedFails
  <1>2. CASE m # job[t].note
    BY <1>2, ThroughLeaves, OtherNotes DEF EmbedFails
  <1> QED BY <1>1, <1>2

LEMMA StoresNote ==
    ASSUME IInv, NEW t \in Threads, NEW pc \in {"read", "remove"}, Stores(t, pc), NEW m \in Notes
    PROVE  NoteInv(m)'
  <1> USE DEF IInv
  <1> DEFINE n == job[t].note  c == job[t].next  text == job[t].text
  <1>1. /\ n \in Notes /\ text \in Texts /\ c \in Nat /\ Sizes[text] \in Nat
        /\ job[t].pc \in {"embed", "store"}
    BY ChunksOfTexts DEF Stores, JobInv, JobFits, Job
  <1>2. disk' = disk /\ todo' = todo /\ doubt' = doubt /\ entries' = [entries EXCEPT ![n][c] = text]
        /\ entries \in [Notes -> [Chunks -> 0..MaxTexts]]
    BY DEF Stores, TypeOK
  <1>3. c # Sizes[text] =>
           /\ job'[t].pc = "store" /\ job'[t].text = text /\ job'[t].note = n /\ job'[t].next = c + 1
           /\ \A u \in Threads \ {t} : job'[u] = job[u]
    BY DEF Stores, JobInv, Job
  <1>4. c = Sizes[text] => Through(t, pc)
    BY DEF Stores
  <1>5. CASE m # n
    <2>1. entries'[m] = entries[m]
      BY <1>2, <1>5
    <2>2. /\ Pending(m) => Pending(m)'
          /\ \A u \in Threads : \/ job'[u] = job[u]
                                \/ ~ActiveIn(u, job[u], m) /\ ~ActiveIn(u, job'[u], m)
      <3>1. CASE c = Sizes[text]
        BY <1>1, <1>2, <1>4, <1>5, <3>1, ThroughLeaves
      <3>2. CASE c # Sizes[text]
        BY <1>2, <1>3, <1>5, <3>2, LockIsNoTool DEF Pending, ActiveIn
      <3> QED BY <3>1, <3>2
    <2> QED BY <1>2, <2>1, <2>2, OtherNotes
  <1>6. CASE m = n
    <2>1. ActiveIn(t, job[t], m) /\ job[t].pc # "remove"
      BY <1>1, <1>6 DEF ActiveIn
    <2>2. m \notin doubt => NoteInvOf(m, job, disk[m], entries[m], Pending(m))
      BY NoteInvIs
    <2>3. m \notin doubt => text = disk[m] /\ \A u \in Threads \ {t} : ~ActiveIn(u, job[u], m)
      BY <2>1, <2>2 DEF NoteInvOf
    <2>4. m \notin doubt /\ ~Pending(m) => entries[m] = Prefix(text, c)
      BY <2>1, <2>2 DEF NoteInvOf
    <2>5. m \notin doubt /\ ~Pending(m) => entries'[m] = Prefix(text, c + 1)
      <3>1. entries'[m] = [entries[m] EXCEPT ![c] = text]
        BY <1>2, <1>6
      <3> HIDE DEF n, c, text
      <3> QED BY <1>1, <2>4, <3>1, PrefixSteps
    <2>6. CASE c # Sizes[text]
      <3>1. ActiveIn(t, job'[t], m) /\ job'[t].text = text /\ job'[t].next = c + 1
            /\ \A u \in Threads \ {t} : job'[u] = job[u]
        BY <1>3, <1>6, <2>6 DEF ActiveIn
      <3>2. Pending(m) => Pending(m)'
        BY <1>1, <1>2, <3>1, <2>1, LockIsNoTool DEF Pending
      <3>3. m \notin doubt' =>
              /\ \A u \in Threads \ {t} : ~ActiveIn(u, job'[u], m)
              /\ job'[t].text = disk'[m]
              /\ ~Pending(m)' => entries'[m] = Prefix(job'[t].text, job'[t].next)
        BY <1>2, <2>3, <2>5, <3>1, <3>2
      <3> QED BY <3>1, <3>3, OneLeft
    <2>7. CASE c = Sizes[text]
      <3>a. CASE job'[t] # Idle
        <4>1. /\ t = Lock /\ job'[t].pc = "remove" /\ job'[t].note = n /\ job'[t].text = text
              /\ \A u \in Threads \ {t} : job'[u] = job[u]
          BY <1>1, <1>4, <2>7, <3>a, AfterThrough
        <4>2. ActiveIn(t, job'[t], m)
          BY <4>1, <1>6 DEF ActiveIn
        <4>3. m \notin doubt' => /\ \A u \in Threads \ {t} : ~ActiveIn(u, job'[u], m)
                                 /\ job'[t].text = disk'[m]
          BY <1>2, <2>3, <4>1
        <4> QED BY <4>1, <4>2, <4>3, OneLeft
      <3> SUFFICES ASSUME job'[t] = Idle PROVE NoteInv(m)'
        BY <3>a
      <3>1. job'[t] = Idle /\ \A u \in Threads \ {t} :
                                \/ job'[u] = job[u]
                                \/ u \in Tools /\ job'[u].pc \in {"read", "remove"}
        BY <1>1, <1>4, <2>7, AfterThrough
      <3>2. m \notin doubt => \A u \in Threads : ~ActiveIn(u, job'[u], m)
        BY <2>3, <3>1, LockIsNoTool DEF ActiveIn, Idle
      <3>3. Pending(m) => Pending(m)'
        BY <1>1, <1>2, <1>4, <2>7, <2>1, AfterThrough, LockIsNoTool DEF Pending
      <3>4. Prefix(text, c + 1) = IndexOf(text)
        BY <1>1, <2>7, PrefixSteps
      <3>5. m \notin doubt' => NoteInvOf(m, job', disk'[m], entries'[m], Pending(m)')
        BY <1>2, <2>3, <2>5, <3>2, <3>3, <3>4 DEF NoteInvOf
      <3> QED BY <3>5, NoteInvIs
    <2> QED BY <2>6, <2>7
  <1> QED BY <1>5, <1>6

LEMMA WritesNote ==
    ASSUME IInv, NEW n \in Notes, NEW tool \in Tools \cup {Lock}, Writes(n, tool), NEW m \in Notes
    PROVE  NoteInv(m)'
  <1> USE DEF IInv
  <1>1. job' = [job EXCEPT ![tool] = Idle,
                           ![Lock] = [Idle EXCEPT !.pc = "remove", !.note = n, !.text = texts + 1,
                                                  !.own = texts + 1, !.tool = tool]]
        /\ job[Lock] = Idle /\ entries' = entries /\ todo' = todo
        /\ disk' = [disk EXCEPT ![n] = texts + 1]
        /\ (tool # Lock => job[tool] = Idle \/ job[tool].pc = "remove")
        /\ doubt' = IF ~Met({Lock, tool}, n) THEN doubt \ {n} ELSE doubt \cup {n}
    BY DEF Writes, LockFree, Begins
  <1>2. /\ job'[Lock].pc = "remove" /\ job'[Lock].note = n /\ job'[Lock].text = disk'[n]
        /\ \A u \in Threads \ {Lock, tool} : job'[u] = job[u]
        /\ tool # Lock => job'[tool] = Idle
    <2>1. Lock \in Threads /\ tool \in Threads /\ job \in [Threads -> Job]
      BY LockIsNoTool DEF JobInv, Threads
    <2>2. disk'[n] = texts + 1
      BY <1>1 DEF TypeOK
    <2>3. Idle = [pc |-> Idle.pc, note |-> Idle.note, text |-> Idle.text, next |-> Idle.next,
                  tool |-> Idle.tool, own |-> Idle.own, again |-> Idle.again]
      BY DEF Idle
    <2>4. job'[Lock] = [Idle EXCEPT !.pc = "remove", !.note = n, !.text = texts + 1,
                                    !.own = texts + 1, !.tool = tool]
      BY <1>1, <2>1
    <2> QED BY <1>1, <2>1, <2>2, <2>3, <2>4
  <1>a. tool # Lock => \A k \in Notes : /\ ~ActiveIn(tool, job[tool], k)
                                         /\ ~ActiveIn(tool, job'[tool], k)
    <2>1. Idle.pc = "idle"
      BY DEF Idle
    <2>2. tool # Lock => job[tool].pc \in {"idle", "remove"} /\ job'[tool].pc = "idle"
      BY <1>1, <1>2, <2>1
    <2> QED BY <2>2 DEF ActiveIn
  <1>3. CASE m # n
    <2>1. ~ActiveIn(Lock, job[Lock], m) /\ ~ActiveIn(Lock, job'[Lock], m)
      <3>1. job[Lock].pc = "idle"
        BY <1>1 DEF Idle
      <3> QED BY <1>2, <1>3, <3>1 DEF ActiveIn
    <2>2. Pending(m) => Pending(m)'
      <3>1. Idle.pc = "idle" /\ tool # Import /\ Import # Lock /\ Import \in Threads
        BY LockIsNoTool DEF Idle
      <3> QED BY <1>1, <1>2, <3>1 DEF Pending
    <2>3. \A u \in Threads : \/ job'[u] = job[u]
                             \/ ~ActiveIn(u, job[u], m) /\ ~ActiveIn(u, job'[u], m)
      BY <1>2, <1>a, <2>1
    <2>4. disk'[m] = disk[m] /\ entries'[m] = entries[m] /\ (m \notin doubt' => m \notin doubt)
      BY <1>1, <1>3 DEF TypeOK
    <2> QED BY <2>2, <2>3, <2>4, OtherNotes
  <1>4. CASE m = n
    <2>1. m \notin doubt' => ~Met({Lock, tool}, m)
      BY <1>1, <1>4
    <2>2. m \notin doubt' => \A u \in Threads \ {Lock} : ~ActiveIn(u, job'[u], m)
      BY <1>2, <1>a, <2>1 DEF Met, ActiveIn
    <2>3. ActiveIn(Lock, job'[Lock], m)
      BY <1>2, <1>4 DEF ActiveIn
    <2> QED BY <1>2, <1>4, <2>2, <2>3, LockIsNoTool, OneLeft
  <1> QED BY <1>3, <1>4

\* A note that is not in doubt is indexed under the lock alone when the observer
\* writes it again.
LEMMA ExtractsNote ==
    ASSUME IInv, Extracts, NEW m \in Notes
    PROVE  NoteInv(m)'
  <1> USE DEF IInv
  <1> DEFINE n == job[Lock].note
  <1>1. /\ job' = [job EXCEPT ![Lock] = [job[Lock] EXCEPT !.text = texts + 1, !.again = TRUE]]
        /\ disk' = [disk EXCEPT ![n] = texts + 1] /\ job[Lock].pc = "remove"
        /\ entries' = entries /\ todo' = todo /\ doubt' = doubt
    BY DEF Extracts
  <1>2. /\ job'[Lock].pc = "remove" /\ job'[Lock].note = n /\ job'[Lock].text = texts + 1
        /\ \A u \in Threads \ {Lock} : job'[u] = job[u]
    BY <1>1, LockIsNoTool DEF JobInv, Job
  <1>3. Pending(m) => Pending(m)'
    BY <1>1, <1>2, LockIsNoTool DEF Pending
  <1>4. CASE m # n
    <2>1. ~ActiveIn(Lock, job[Lock], m) /\ ~ActiveIn(Lock, job'[Lock], m)
      BY <1>2, <1>4 DEF ActiveIn
    <2> QED BY <1>1, <1>2, <1>3, <1>4, <2>1, OtherNotes DEF TypeOK
  <1>5. CASE m = n
    <2>1. ActiveIn(Lock, job[Lock], m) /\ ActiveIn(Lock, job'[Lock], m)
      BY <1>1, <1>2, <1>5 DEF ActiveIn
    <2>2. m \notin doubt => NoteInvOf(m, job, disk[m], entries[m], Pending(m))
      BY NoteInvIs
    <2>3. m \notin doubt' => \A u \in Threads \ {Lock} : ~ActiveIn(u, job'[u], m)
      BY <1>1, <1>2, <2>1, <2>2, LockIsNoTool DEF NoteInvOf
    <2>4. job'[Lock].text = disk'[m]
      BY <1>1, <1>2, <1>5 DEF TypeOK
    <2> QED BY <1>2, <2>1, <2>3, <2>4, LockIsNoTool, OneLeft
  <1> QED BY <1>4, <1>5

LEMMA DeletesNote ==
    ASSUME IInv, NEW n \in Notes, NEW tool \in Tools \cup {Lock}, Deletes(n, tool), NEW m \in Notes
    PROVE  NoteInv(m)'
  <1> USE DEF IInv
  <1>1. /\ job[Lock] = Idle /\ todo' = todo /\ disk' = [disk EXCEPT ![n] = 0]
        /\ entries' = [entries EXCEPT ![n] = IndexOf(0)]
        /\ doubt' = IF ~Met({Lock}, n) THEN doubt \ {n} ELSE doubt \cup {n}
    BY DEF Deletes, LockFree, Begins
  <1>2. \A u \in Threads : \/ job'[u] = job[u]
                           \/ u \in Tools /\ job[u] = Idle /\ job'[u].pc = "drop"
    <2>1. CASE tool = Lock
      BY <2>1 DEF Deletes
    <2>2. CASE tool # Lock
      <3>1. job' = [job EXCEPT ![tool] = [Idle EXCEPT !.pc = "drop", !.note = n]]
            /\ job[tool] = Idle
        BY <2>2 DEF Deletes
      <3> QED BY <2>2, <3>1 DEF JobInv, Idle
    <2> QED BY <2>1, <2>2
  <1>3. CASE m # n
    <2>1. \A u \in Threads : \/ job'[u] = job[u]
                             \/ ~ActiveIn(u, job[u], m) /\ ~ActiveIn(u, job'[u], m)
      BY <1>2, LockIsNoTool DEF ActiveIn, Idle
    <2>2. Pending(m) => Pending(m)'
      BY <1>1, <1>2, LockIsNoTool DEF Pending
    <2> QED BY <1>1, <1>3, <2>1, <2>2, OtherNotes DEF TypeOK
  <1>4. CASE m = n
    <2>1. m \notin doubt' => ~Met({Lock}, m)
      BY <1>1, <1>4
    <2>2. m \notin doubt' => \A u \in Threads : ~ActiveIn(u, job'[u], m)
      BY <1>1, <1>2, <2>1, LockIsNoTool DEF Met, ActiveIn, Idle
    <2>3. entries'[m] = IndexOf(disk'[m])
      BY <1>1, <1>4 DEF TypeOK
    <2>4. m \notin doubt' => NoteInvOf(m, job', disk'[m], entries'[m], Pending(m)')
      BY <2>2, <2>3 DEF NoteInvOf
    <2> QED BY <2>4, NoteInvIs
  <1> QED BY <1>3, <1>4

LEMMA DropsNote ==
    ASSUME IInv, NEW t \in Tools, Drops(t), NEW m \in Notes
    PROVE  NoteInv(m)'
  <1> USE DEF IInv
  <1> DEFINE n == job[t].note
  <1>1. /\ t \in Threads /\ t # Lock /\ t # Import /\ job[t].pc = "drop" /\ n \in Notes
    BY LockIsNoTool DEF Drops, Threads, JobInv, JobFits
  <1>2. /\ disk' = disk /\ todo' = todo /\ entries' = [entries EXCEPT ![n] = IndexOf(0)]
        /\ job' = [job EXCEPT ![t] = Idle]
        /\ doubt' = IF ~Exists(n) /\ ~Met({t}, n) THEN doubt \ {n} ELSE doubt \cup {n}
    BY DEF Drops, Cleared, Begins
  <1>3. job'[t] = Idle /\ \A u \in Threads \ {t} : job'[u] = job[u]
    BY <1>1, <1>2 DEF JobInv
  <1>4. \A k \in Notes : ~ActiveIn(t, job[t], k) /\ ~ActiveIn(t, job'[t], k)
    BY <1>1, <1>3 DEF ActiveIn, Idle
  <1>5. CASE m # n
    <2>1. Pending(m) => Pending(m)'
      BY <1>1, <1>2, <1>3, LockIsNoTool DEF Pending
    <2> QED BY <1>2, <1>3, <1>4, <1>5, <2>1, OtherNotes DEF TypeOK
  <1>6. CASE m = n
    <2>1. m \notin doubt' => disk[m] = 0 /\ ~Met({t}, m)
      BY <1>2, <1>6 DEF Exists, TypeOK, Texts
    <2>2. m \notin doubt' => \A u \in Threads : ~ActiveIn(u, job'[u], m)
      BY <1>3, <1>4, <2>1 DEF Met, ActiveIn
    <2>3. m \notin doubt' => entries'[m] = IndexOf(disk'[m])
      BY <1>1, <1>2, <1>6, <2>1 DEF TypeOK
    <2>4. m \notin doubt' => NoteInvOf(m, job', disk'[m], entries'[m], Pending(m)')
      BY <2>2, <2>3 DEF NoteInvOf
    <2> QED BY <2>4, NoteInvIs
  <1> QED BY <1>5, <1>6

\* Reading the note again, and the import's first steps, index nothing.
LEMMA ReadsNote ==
    ASSUME IInv, NEW t \in Tools, Reads(t), NEW m \in Notes
    PROVE  NoteInv(m)'
  <1> USE DEF IInv
  <1>1. t \in Threads /\ t # Lock /\ t # Import /\ job[t].pc = "read"
    BY LockIsNoTool DEF Reads, Threads
  <1>2. job'[t].pc \in {"remove", "idle"} /\ \A u \in Threads \ {t} : job'[u] = job[u]
    BY <1>1 DEF Reads, JobInv, Job, Idle
  <1>3. ~ActiveIn(t, job[t], m) /\ ~ActiveIn(t, job'[t], m)
    BY <1>1, <1>2 DEF ActiveIn
  <1>4. Pending(m) => Pending(m)'
    BY <1>1, <1>2, LockIsNoTool DEF Reads, Pending
  <1> QED BY <1>2, <1>3, <1>4, OtherNotes DEF Reads

LEMMA ImportsNote ==
    ASSUME IInv, NEW n \in Notes, Imports(n), NEW m \in Notes
    PROVE  NoteInv(m)'
  <1> USE DEF IInv
  <1>1. /\ job' = [job EXCEPT ![Import] = [Idle EXCEPT !.pc = "list", !.note = n]]
        /\ job[Import] = Idle /\ todo' = todo /\ doubt' = doubt \cup {n}
        /\ disk' = [disk EXCEPT ![n] = texts + 1] /\ entries' = entries
    BY DEF Imports
  <1>2. job'[Import].pc = "list" /\ \A u \in Threads \ {Import} : job'[u] = job[u]
    BY <1>1, LockIsNoTool DEF JobInv, Idle
  <1>3. CASE m = n
    BY <1>1, <1>3, NoteInvIs
  <1>4. CASE m # n
    <2>1. ~ActiveIn(Import, job[Import], m) /\ ~ActiveIn(Import, job'[Import], m)
      BY <1>1, <1>2 DEF ActiveIn, Idle
    <2>2. Pending(m) => Pending(m)'
      BY <1>1 DEF Pending, Idle
    <2> QED BY <1>1, <1>2, <1>4, <2>1, <2>2, OtherNotes DEF TypeOK
  <1> QED BY <1>3, <1>4

LEMMA ListsNote ==
    ASSUME IInv, Lists, NEW m \in Notes
    PROVE  NoteInv(m)'
  <1> USE DEF IInv
  <1>1. /\ job' = [job EXCEPT ![Import].pc = "clear"] /\ job[Import].pc = "list"
        /\ todo = <<>> /\ doubt' = doubt /\ disk' = disk /\ entries' = entries
    BY DEF Lists, JobInv
  <1>2. job'[Import].pc = "clear" /\ \A u \in Threads \ {Import} : job'[u] = job[u]
    BY <1>1, LockIsNoTool DEF JobInv, Job
  <1>3. ~ActiveIn(Import, job[Import], m) /\ ~ActiveIn(Import, job'[Import], m)
    BY <1>1, <1>2, LockIsNoTool DEF ActiveIn
  <1>4. ~Pending(m)
    BY <1>1 DEF Pending
  <1> QED BY <1>1, <1>2, <1>3, <1>4, OtherNotes

\* What the import will not index is not there.
LEMMA EmptiesNote ==
    ASSUME IInv, Empties, NEW m \in Notes
    PROVE  NoteInv(m)'
  <1> USE DEF IInv
  <1>1. /\ job' = [job EXCEPT ![Import] = Idle] /\ job[Import].pc = "clear"
        /\ todo' = todo /\ disk' = disk /\ entries' = [n \in Notes |-> IndexOf(0)]
        /\ doubt' = doubt \cup {n \in Notes \ DOMAIN todo : Exists(n)}
    BY DEF Empties
  <1>2. job'[Import] = Idle /\ \A u \in Threads \ {Import} : job'[u] = job[u]
    BY <1>1, LockIsNoTool DEF JobInv
  <1>3. ~ActiveIn(Import, job[Import], m) /\ ~ActiveIn(Import, job'[Import], m)
    BY <1>1, <1>2, LockIsNoTool DEF ActiveIn, Idle
  <1>4. m \notin doubt => NoteInvOf(m, job, disk[m], entries[m], Pending(m))
    BY NoteInvIs
  <1>5. CASE m \in DOMAIN todo
    <2>1. Pending(m)'
      BY <1>1, <1>5 DEF Pending
    <2>2. \A u \in Threads : ActiveIn(u, job'[u], m) <=> ActiveIn(u, job[u], m)
      BY <1>2, <1>3
    <2>3. \A u \in Threads : ActiveIn(u, job'[u], m) => job'[u] = job[u]
      BY <1>2, <1>3
    <2>4. m \notin doubt' => NoteInvOf(m, job', disk'[m], entries'[m], Pending(m)')
      BY <1>1, <1>4, <2>1, <2>2, <2>3 DEF NoteInvOf
    <2> QED BY <2>4, NoteInvIs
  <1>6. CASE m \notin DOMAIN todo
    <2>1. m \notin doubt' => m \notin doubt /\ disk[m] = 0
      BY <1>1, <1>6 DEF Exists, TypeOK, Texts
    <2>2. m \notin doubt' => \A u \in Threads : ~ActiveIn(u, job[u], m)
      <3>1. \A u \in Threads : ActiveIn(u, job[u], m) => job[u].text \in Texts
        BY DEF ActiveIn, JobInv, JobFits
      <3> QED BY <1>4, <2>1, <3>1 DEF NoteInvOf, Texts
    <2>3. m \notin doubt' => \A u \in Threads : ~ActiveIn(u, job'[u], m)
      BY <1>2, <1>3, <2>2
    <2>4. m \notin doubt' => entries'[m] = IndexOf(disk'[m])
      BY <1>1, <2>1
    <2>5. m \notin doubt' => NoteInvOf(m, job', disk'[m], entries'[m], Pending(m)')
      BY <2>3, <2>4 DEF NoteInvOf
    <2> QED BY <2>5, NoteInvIs
  <1> QED BY <1>5, <1>6

LEMMA IndexesNextNote ==
    ASSUME IInv, NEW n \in Notes, IndexesNext(n), NEW m \in Notes
    PROVE  NoteInv(m)'
  <1> USE DEF IInv
  <1>1. /\ job' = [job EXCEPT ![Import] = [Idle EXCEPT !.pc = "remove", !.note = n, !.text = todo[n]]]
        /\ job[Import] = Idle /\ doubt' = doubt /\ disk' = disk /\ entries' = entries
        /\ DOMAIN todo' = DOMAIN todo \ {n}
    BY DEF IndexesNext, Restrict
  <1>2. job'[Import].pc = "remove" /\ job'[Import].note = n
        /\ \A u \in Threads \ {Import} : job'[u] = job[u]
    BY <1>1, LockIsNoTool DEF JobInv, Idle
  <1>3. ~ActiveIn(Import, job[Import], m) /\ ~ActiveIn(Import, job'[Import], m)
    BY <1>1, <1>2, LockIsNoTool DEF ActiveIn, Idle
  <1>4. Pending(m) => Pending(m)'
    BY <1>1, <1>2 DEF Pending, Idle
  <1> QED BY <1>1, <1>2, <1>3, <1>4, OtherNotes

LEMMA RestartNote ==
    ASSUME IInv, NEW failed \in SUBSET Notes, Restart(failed), NEW m \in Notes
    PROVE  NoteInv(m)'
  <1>1. \A u \in Threads : ~ActiveIn(u, job'[u], m)
    BY DEF Restart, ActiveIn, Idle
  <1>2. m \notin doubt' => entries'[m] = IndexOf(disk'[m])
    BY DEF Restart
  <1>3. m \notin doubt' => NoteInvOf(m, job', disk'[m], entries'[m], Pending(m)')
    BY <1>1, <1>2 DEF NoteInvOf
  <1> QED BY <1>3, NoteInvIs

LEMMA NoteStep == ASSUME IInv, [Next]_vars, NEW m \in Notes PROVE NoteInv(m)'
  <1>1. ASSUME UNCHANGED vars PROVE NoteInv(m)'
    <2>1. NoteInvOf(m, job', disk'[m], entries'[m], Pending(m)')
             <=> NoteInvOf(m, job, disk[m], entries[m], Pending(m))
      BY <1>1 DEF vars, Pending
    <2> QED BY <1>1, <2>1, NoteInvIs DEF vars, IInv
  <1> QED
    BY <1>1, RemovesNote, EmbedFailsNote, StoresNote, WritesNote, ExtractsNote, DeletesNote, DropsNote,
       ReadsNote, ImportsNote, ListsNote, EmptiesNote, IndexesNextNote, RestartNote
       DEF Next, Indexing

-----------------------------------------------------------------------------
LEMMA InitInv == Init => IInv
  <1> SUFFICES ASSUME Init PROVE IInv
    OBVIOUS
  <1>1. \A t \in Threads : job[t] = Idle
    BY DEF Init
  <1>2. 0 \in 0..MaxTexts
    BY BoundsAssumption
  <1>3. TypeOK
    <2>1. entries \in [Notes -> [Chunks -> 0..MaxTexts]] /\ disk \in [Notes -> 0..MaxTexts]
      BY <1>2, IndexOfTypes DEF Init
    <2> QED BY <1>1, <2>1 DEF Init, TypeOK, Idle
  <1>4. JobInv
    <2>1. job \in [Threads -> Job] /\ Idle.pc = "idle" /\ Idle.tool = Lock /\ ~Idle.again
      BY IdleFits DEF Init, Idle
    <2> QED BY <1>1, <1>2, <2>1, IdleFits, LockIsNoTool DEF Init, JobInv
  <1>5. ASSUME NEW n \in Notes PROVE NoteInv(n)
    <2>1. \A u \in Threads : ~ActiveIn(u, job[u], n)
      BY <1>1 DEF ActiveIn, Idle
    <2>2. entries[n] = IndexOf(disk[n])
      BY DEF Init
    <2>3. NoteInvOf(n, job, disk[n], entries[n], Pending(n))
      BY <2>1, <2>2 DEF NoteInvOf
    <2> QED BY <2>3, NoteInvIs
  <1> QED BY <1>3, <1>4, <1>5 DEF IInv

LEMMA Invariance == Spec => []IInv
  <1>1. IInv /\ [Next]_vars => IInv'
    <2> SUFFICES ASSUME IInv, [Next]_vars PROVE IInv'
      OBVIOUS
    <2>1. TypeOK' /\ JobInv' /\ \A m \in Notes : NoteInv(m)'
      BY TypeStep, JobStep, NoteStep
    <2> QED BY <2>1 DEF IInv
  <1> QED BY InitInv, <1>1, PTL DEF Spec

\* Whatever is written, imported and indexed by however many tools, the index
\* holds texts of notes, chunk by chunk, and a thread stores no chunk that the
\* text it indexes does not have (index_concept).
THEOREM TypeCorrect == Spec => []TypeOK
  <1>1. IInv => TypeOK
    BY DEF IInv
  <1> QED BY Invariance, <1>1, PTL

\* A note nobody is indexing is in the index as it is on disk, all its chunks
\* and no others, unless its last indexing failed, met another or was of a
\* document that is not on disk: one replaced since, or a tool's own from before
\* the observer added the texts of attachments (index_concept under the bundle
\* lock and after it, refresh_attachment_extracts).
THEOREM IndexCurrent == Spec => []IndexIsCurrent
  <1>1. IInv => IndexIsCurrent
    <2> SUFFICES ASSUME IInv, NEW n \in Notes, ~Busy(n), n \notin doubt
                 PROVE  entries[n] = IndexOf(disk[n])
      BY DEF IndexIsCurrent
    <2>1. NoteInvOf(n, job, disk[n], entries[n], Pending(n))
      BY NoteInvIs DEF IInv
    <2>2. (\A u \in Threads : ~ActiveIn(u, job[u], n)) /\ ~Pending(n)
      BY LockIsNoTool DEF Busy, ActiveIn, Pending
    <2> QED BY <2>1, <2>2 DEF NoteInvOf
  <1> QED BY Invariance, <1>1, PTL

-----------------------------------------------------------------------------
(* Searching: a counting argument over the chunks looked at. *)

\* No note has more chunks than are fetched for each note wanted.
EnoughFetched == IsFiniteSet(Notes) /\ \A text \in Texts : Sizes[text] <= Extra

LEMMA FewChunks == EnoughFetched => Cardinality(Chunks) <= Extra /\ Cardinality(Chunks) \in Nat
  <1> SUFFICES ASSUME EnoughFetched
               PROVE  Cardinality(Chunks) <= Extra /\ Cardinality(Chunks) \in Nat
    OBVIOUS
  <1> DEFINE S == {Sizes[i] : i \in Texts} \cup {1}
  <1>1. S \in SUBSET Nat /\ \A x \in S : x <= Extra
    BY BoundsAssumption DEF EnoughFetched, Texts
  <1>2. IsFiniteSet(S)
    <2>1. S \subseteq 1..Extra
      BY <1>1, BoundsAssumption DEF Texts
    <2>2. IsFiniteSet(1..Extra)
      BY BoundsAssumption, FS_Interval
    <2> HIDE DEF S
    <2> QED BY <2>1, <2>2, FS_Subset
  <1>3. S # {}
    OBVIOUS
  <1>4. Chunks = 1..Max(S)
    BY DEF Chunks
  <1> HIDE DEF S
  <1>5. Max(S) \in Nat /\ Max(S) <= Extra
    BY <1>1, <1>2, <1>3, MaxOfFinite
  <1>6. Cardinality(1..Max(S)) = IF 1 > Max(S) THEN 0 ELSE Max(S) - 1 + 1
    BY <1>5, FS_Interval
  <1> QED BY <1>4, <1>5, <1>6, BoundsAssumption

\* AtMost of finite sets.
LEMMA AtMostOf ==
    ASSUME NEW k \in Nat, NEW S, IsFiniteSet(S)
    PROVE  /\ AtMost(k, S) \in Nat /\ AtMost(k, S) <= k /\ AtMost(k, S) <= Cardinality(S)
           /\ k >= Cardinality(S) => AtMost(k, S) = Cardinality(S)
           /\ k <= Cardinality(S) => AtMost(k, S) = k
  <1>1. Cardinality(S) \in Nat
    BY FS_CardinalityType
  <1> QED BY <1>1 DEF AtMost

LEMMA FiniteEntries ==
    EnoughFetched => IsFiniteSet(Entries) /\ IsFiniteSet(Indexed) /\ Indexed \subseteq Notes
  <1> SUFFICES ASSUME EnoughFetched
               PROVE  IsFiniteSet(Entries) /\ IsFiniteSet(Indexed) /\ Indexed \subseteq Notes
    OBVIOUS
  <1>1. Indexed \subseteq Notes /\ Entries \subseteq Notes \X Chunks
    BY DEF Indexed, Entries
  <1>2. IsFiniteSet(Notes \X Chunks)
    BY FS_Product, ChunksOfTexts DEF EnoughFetched
  <1> QED BY <1>1, <1>2, FS_Subset DEF EnoughFetched

\* The notes of k * Extra chunks are at least k.
LEMMA NotesOfChunks ==
    ASSUME EnoughFetched, NEW k \in Nat, NEW raw \in SUBSET Entries,
           Cardinality(raw) = k * Extra
    PROVE  LET near == {e[1] : e \in raw} IN IsFiniteSet(near) /\ Cardinality(near) >= k
  <1> DEFINE near == {e[1] : e \in raw}
  <1>1. near \subseteq Indexed
    BY DEF Indexed
  <1>2. raw \subseteq near \X Chunks
    BY DEF Entries
  <1> HIDE DEF near
  <1>3. IsFiniteSet(near) /\ Cardinality(near) \in Nat
    BY <1>1, FiniteEntries, FS_Subset, FS_CardinalityType
  <1>4. Cardinality(raw) <= Cardinality(near) * Cardinality(Chunks)
    <2>1. /\ IsFiniteSet(near \X Chunks)
          /\ Cardinality(near \X Chunks) = Cardinality(near) * Cardinality(Chunks)
      BY <1>3, ChunksOfTexts, FS_Product
    <2> QED BY <1>2, <2>1, FS_Subset
  <1>5. Cardinality(Chunks) \in Nat /\ Cardinality(Chunks) <= Extra /\ Extra \in Nat \ {0}
    BY FewChunks, BoundsAssumption
  <1>6. ASSUME NEW a \in Nat, NEW c \in Nat, NEW x \in Nat \ {0}, c <= x, k * x <= a * c
        PROVE  a >= k
    <2>1. a * c <= a * x
      BY <1>6
    <2>2. k * x <= a * x
      BY <1>6, <2>1
    <2>3. CASE a < k
      <3>1. (a + 1) * x <= k * x
        BY <2>3
      <3>2. (a + 1) * x = a * x + x
        OBVIOUS
      <3> QED BY <2>2, <3>1, <3>2
    <2> QED BY <2>3
  <1>7. Cardinality(near) >= k
    BY <1>3, <1>4, <1>5, <1>6
  <1>8. near = {e[1] : e \in raw}
    BY DEF near
  <1> QED BY <1>3, <1>7, <1>8

\* A search finds as many notes as it wants, or all there are in its scope.
LEMMA FoundEnough ==
    ASSUME EnoughFetched, NEW k \in Nat, NEW scope, scope \subseteq Notes,
           NEW hits \in Found(k, scope)
    PROVE  /\ hits \subseteq Indexed \cap scope /\ IsFiniteSet(Indexed \cap scope)
           /\ Cardinality(hits) = AtMost(k, Indexed \cap scope)
  <1> DEFINE all == Indexed \cap scope
             scoped == scope # Notes
  <1>1. PICK raw \in kSubset(LookedAt(k, scoped), Entries) :
            LET near == {e[1] : e \in raw} \cap scope IN hits \in kSubset(AtMost(k, near), near)
    BY DEF Found
  <1> DEFINE near == {e[1] : e \in raw} \cap scope
  <1>2. raw \in SUBSET Entries /\ Cardinality(raw) = LookedAt(k, scoped)
    BY <1>1 DEF kSubset
  <1>3. hits \in SUBSET near /\ Cardinality(hits) = AtMost(k, near)
    BY <1>1 DEF kSubset
  <1>4. near \in SUBSET all /\ IsFiniteSet(all)
    <2>1. near \in SUBSET all
      BY <1>2 DEF Indexed
    <2> HIDE DEF near
    <2> QED BY <2>1, FiniteEntries, FS_Intersection
  <1>5. IsFiniteSet(Entries) /\ Cardinality(Entries) \in Nat /\ k * Extra \in Nat
    BY FiniteEntries, FS_CardinalityType, BoundsAssumption
  <1>6. CASE Cardinality(raw) = Cardinality(Entries)
    <2>1. raw = Entries
      BY <1>2, <1>5, <1>6, FS_Subset
    <2>2. near = all
      BY <2>1 DEF Indexed
    <2> QED BY <1>3, <1>4, <2>2
  <1>7. CASE Cardinality(raw) # Cardinality(Entries)
    <2>1. ~scoped /\ Cardinality(raw) = k * Extra
      BY <1>2, <1>5, <1>7 DEF LookedAt, AtMost
    <2>2. near = {e[1] : e \in raw}
      BY <1>2, <2>1 DEF Entries
    <2>3. IsFiniteSet(near) /\ Cardinality(near) >= k
      <3> HIDE DEF near
      <3> QED BY <1>2, <2>1, <2>2, NotesOfChunks
    <2> HIDE DEF near, all
    <2>4. Cardinality(near) <= Cardinality(all) /\ Cardinality(near) \in Nat /\ Cardinality(all) \in Nat
      BY <1>4, <2>3, FS_Subset, FS_CardinalityType
    <2>5. AtMost(k, near) = k /\ AtMost(k, all) = k
      BY <1>4, <2>3, <2>4, AtMostOf
    <2> QED BY <1>3, <1>4, <2>5 DEF all
  <1> QED BY <1>6, <1>7

\* What is in the index does not matter: the search looks far enough.
LEMMA SearchLooksFar == ASSUME EnoughFetched PROVE NobodyIsCrowdedOut
  <1> SUFFICES ASSUME NEW k \in 1..Cardinality(Notes),
                      NEW scope \in {Notes} \cup kSubset(1, Notes)
               PROVE  /\ \A hits \in Found(k, scope) :
                            Cardinality(hits) = AtMost(k, Indexed \cap scope)
                      /\ Cardinality({n \in Indexed : ~Exists(n)} \cup Hidden) <= k * (Spare - 1) =>
                            \A notes \in Shown(k, scope, Hidden) :
                               Cardinality(notes) =
                                  AtMost(k, {n \in Indexed \cap scope : Exists(n)} \ Hidden)
    BY DEF NobodyIsCrowdedOut
  <1>1. k \in Nat /\ scope \subseteq Notes
    BY FS_CardinalityType DEF EnoughFetched, kSubset
  <1>2. \A hits \in Found(k, scope) : Cardinality(hits) = AtMost(k, Indexed \cap scope)
    BY <1>1, FoundEnough
  <1>3. ASSUME Cardinality({n \in Indexed : ~Exists(n)} \cup Hidden) <= k * (Spare - 1),
               NEW notes \in Shown(k, scope, Hidden)
        PROVE  Cardinality(notes) = AtMost(k, {n \in Indexed \cap scope : Exists(n)} \ Hidden)
    <2> DEFINE all == Indexed \cap scope
               bad == {n \in Indexed : ~Exists(n)} \cup Hidden
               good == {n \in all : Exists(n)} \ Hidden
    <2>1. PICK hits \in Found(k * Spare, scope) :
              LET fit == {n \in hits : Exists(n) /\ n \notin Hidden}
              IN  notes \in kSubset(AtMost(k, fit), fit)
      BY DEF Shown
    <2> DEFINE fit == {n \in hits : Exists(n) /\ n \notin Hidden}
    <2>2. k * Spare \in Nat /\ Spare \in Nat \ {0}
      BY <1>1, BoundsAssumption
    <2>3. hits \subseteq all /\ IsFiniteSet(all) /\ Cardinality(hits) = AtMost(k * Spare, all)
      BY <1>1, <2>2, FoundEnough
    <2>4. Cardinality(notes) = AtMost(k, fit)
      BY <2>1 DEF kSubset
    <2>5. /\ IsFiniteSet(hits) /\ Cardinality(hits) \in Nat /\ Cardinality(all) \in Nat
          /\ Cardinality(hits) = Cardinality(all) => hits = all
      BY <2>3, FS_Subset, FS_CardinalityType
    <2>6. CASE Cardinality(hits) = Cardinality(all)
      <3>1. fit = good
        BY <2>5, <2>6
      <3> QED BY <2>4, <3>1
    <2>7. CASE Cardinality(hits) # Cardinality(all)
      <3>1. Cardinality(hits) = k * Spare
        BY <2>2, <2>3, <2>5, <2>7 DEF AtMost
      <3>2. fit = hits \ bad /\ fit \subseteq good /\ good \subseteq all
        BY <2>3
      <3>3. IsFiniteSet(bad) /\ Cardinality(bad) \in Nat
        <4>1. bad \subseteq Notes
          BY FiniteEntries, NotesAssumption
        <4> HIDE DEF bad
        <4> QED BY <4>1, FS_Subset, FS_CardinalityType DEF EnoughFetched
      <3>4. Cardinality(bad) <= k * (Spare - 1)
        BY <1>3
      <3> HIDE DEF bad, fit, good, all
      <3>5. /\ IsFiniteSet(fit) /\ Cardinality(fit) \in Nat
            /\ Cardinality(fit) = Cardinality(hits) - Cardinality(hits \cap bad)
            /\ Cardinality(hits \cap bad) \in Nat /\ Cardinality(hits \cap bad) <= Cardinality(bad)
        BY <2>5, <3>2, <3>3, FS_Difference, FS_Intersection, FS_CardinalityType
      <3>6. k * (Spare - 1) = k * Spare - k
        BY <1>1, <2>2
      <3>7. Cardinality(fit) >= k
        BY <1>1, <2>2, <3>1, <3>3, <3>4, <3>5, <3>6
      <3>8. IsFiniteSet(good) /\ Cardinality(good) \in Nat /\ Cardinality(fit) <= Cardinality(good)
        BY <2>3, <3>2, FS_Subset, FS_CardinalityType
      <3>9. AtMost(k, fit) = k /\ AtMost(k, good) = k
        BY <1>1, <3>5, <3>7, <3>8, AtMostOf
      <3>10. good = {n \in Indexed \cap scope : Exists(n)} \ Hidden
        BY DEF good, all
      <3> QED BY <2>4, <3>9, <3>10
    <2> QED BY <2>6, <2>7
  <1> QED BY <1>2, <1>3

\* A search over many notes, written in many chunks, finds and shows as many
\* notes as were asked for or all there are, as long as no note has more chunks
\* than are fetched for it (IndexService.search, search_library).
THEOREM NobodyCrowdedOut == ASSUME EnoughFetched PROVE Spec => []NobodyIsCrowdedOut
  <1>1. NobodyIsCrowdedOut
    BY SearchLooksFar
  <1> QED BY <1>1, PTL

=============================================================================
