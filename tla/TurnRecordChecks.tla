-------------------------- MODULE TurnRecordChecks ---------------------------
(***************************************************************************)
(* What the records of a turn say, for every short sequence of calls.  The *)
(* assumptions are evaluated by each run whose module extends this one     *)
(* (ChatAgent).                                                            *)
(***************************************************************************)
EXTENDS Naturals, Sequences, FiniteSets

Rec == INSTANCE TurnRecords

RealCalls ==
    UNION {{[tool |-> t, result |-> r] : r \in Rec!Answers(t) \cup {{"error"}, {"failure", "error"}}} :
        t \in Rec!Audited}
CallSeqs == UNION {[1..n -> RealCalls] : n \in 0..2}

\* The ledger and the running turn agree on what was done, so the auditor, who
\* reads receipts, and the retry, which reads results, do not work against each
\* other; the exception is an attachment that was read and holds no text.
ASSUME ReceiptsAgreeWithTheTurn ==
    \A calls \in CallSeqs, tool \in Rec!Audited :
        LET batch == Rec!ForTurn(Rec!Appended(<<>>, "t", calls), "t")
            emptyRead == \E i \in DOMAIN calls :
                            calls[i] = [tool |-> "read_note_attachment", result |-> {}]
        IN /\ Rec!Done(calls, tool) => Rec!HasSucceeded(batch, tool)
           /\ Rec!HasSucceeded(batch, tool) =>
                 Rec!Done(calls, tool) \/ (tool = "read_note_attachment" /\ emptyRead)

\* Two turns of a session do not see each other's receipts, whichever order
\* they were written in, and the latest receipts are the ones last written.
ASSUME TurnsAreKeptApart ==
    \A a, b \in CallSeqs :
        LET ledger == Rec!Appended(Rec!Appended(<<>>, "t", a), "u", b)
        IN /\ Rec!ForTurn(ledger, "t") = Rec!Appended(<<>>, "t", a)
           /\ Rec!ForTurn(ledger, "u") = Rec!Appended(<<>>, "u", b)
           /\ Rec!Recent(ledger, Len(b)) = Rec!ForTurn(ledger, "u")

\* The auditor is shown what was done, whether or not receipts could be kept.
ASSUME EvidenceIsTheTurns ==
    \A calls \in CallSeqs :
        Rec!Evidence(calls, Rec!Appended(<<>>, "t", calls)) = Rec!Evidence(calls, <<>>)

AuditReplies ==
    {[kind |-> "verdict", named |-> n] : n \in {{}, {"generate_image"}, {"create_note", "dance"}}}
        \cup {[kind |-> k, named |-> {}] : k \in {"nonsense", "exception"}}

\* No audit orders what was done already or what there is no tool for, and one
\* that cannot be had orders nothing.
ASSUME AuditsOrderOnlyWhatIsOpen ==
    \A calls \in CallSeqs, replies \in [1..2 -> AuditReplies], present \in BOOLEAN :
        LET audit == Rec!AuditTurn(present, replies, calls)
        IN /\ audit.missing \subseteq Rec!Audited
           /\ \A tool \in audit.missing : ~Rec!Done(calls, tool)
           /\ audit.missing # {} => present /\ \E i \in 1..2 : replies[i].kind = "verdict"
           /\ \A i \in 1..2 :
                 /\ present /\ Rec!IsVerdict(replies[i])
                 /\ i = 2 => replies[1].kind # "exception"
                 => audit.source = "llm"

\* Training sees every trajectory once, in the order of the first.
ASSUME TrainingSeesEachOnce ==
    \A log \in UNION {[1..n -> {"a", "b", "c"}] : n \in 0..4} :
        LET once == Rec!Compressed(log)
        IN /\ {once[i] : i \in DOMAIN once} = {log[i] : i \in DOMAIN log}
           /\ Cardinality({once[i] : i \in DOMAIN once}) = Len(once)
           /\ Rec!Compressed(once) = once
=============================================================================
