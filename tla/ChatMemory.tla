------------------------------ MODULE ChatMemory ------------------------------
(***************************************************************************)
(* The memory of one chat session, which every run whose agent names the   *)
(* session reads and adds to: internal/mongodb/chat_memory.go, called by   *)
(* runAIAgent at its start and at its end.                                 *)
(*                                                                         *)
(* A message is a document [seq, run, part]; part 1 is what the user       *)
(* asked, part 2 the answer.  Each database call is a step, but InsertMany *)
(* is one step per document: it is ordered, and not a transaction.  The    *)
(* calls' errors are logged and forgotten.                                 *)
(***************************************************************************)
EXTENDS Integers, FiniteSets, FiniteSetsExt

CONSTANTS
  ChatRuns,         \* runs that use the session
  OldExchanges,     \* exchanges it starts with
  MaxMessages,      \* defaultMaxMemoryMessages: 30
  MaxChatFaults     \* bound: calls that fail

ASSUME ChatWithinLimit ==
    /\ IsFiniteSet(ChatRuns) /\ MaxMessages \in Nat \ {0}
    /\ OldExchanges \in Nat /\ 2 * OldExchanges <= MaxMessages

VARIABLES
  memory,           \* the documents of the session
  chat,             \* run -> its stage, and the number it read before
  history,          \* run -> the messages it loaded
  chatFaults,
  trimmed           \* history: the highest seq deleted (upTo), whether a trim deleted
                    \* beside another one (crossed), whether a message came to be
                    \* at or below upTo (reused)

chatVars == <<memory, chat, history, chatFaults, trimmed>>

Message(seq, run, part) == [seq |-> seq, run |-> run, part |-> part]
Seqs == {m.seq : m \in memory}

ChatInit ==
    /\ memory = {Message(s, "old", IF s % 2 = 1 THEN 1 ELSE 2) : s \in 1 .. 2 * OldExchanges}
    /\ chat = [r \in ChatRuns |-> [at |-> "load", read |-> 0]]
    /\ history = [r \in ChatRuns |-> {}]
    /\ chatFaults = 0
    /\ trimmed = [upTo |-> 0, crossed |-> FALSE, reused |-> FALSE]

ChatAt(r, stage) == chat[r].at = stage
ChatGoes(r, stage, read) == chat' = [chat EXCEPT ![r] = [at |-> stage, read |-> read]]

Newest(n) == {m \in memory : Cardinality({o \in memory : o.seq > m.seq}) < n}
Oldest(n) == {m \in memory : Cardinality({o \in memory : o.seq < m.seq}) < n}

(***************************************************************************)
(* The agent starts with the newest messages, and answers.                 *)
(***************************************************************************)
LoadHistory(r) ==
    /\ ChatAt(r, "load") /\ ChatGoes(r, "append", 0)
    /\ history' = [history EXCEPT ![r] = Newest(MaxMessages)]
    /\ UNCHANGED <<memory, chatFaults, trimmed>>

(***************************************************************************)
(* Append reads the highest seq and inserts the exchange after it.  A seq  *)
(* that another run took meanwhile is a duplicate key, and ends InsertMany.*)
(***************************************************************************)
AppendReads(r) ==
    /\ ChatAt(r, "append")
    /\ ChatGoes(r, "question", IF memory = {} THEN 1 ELSE Max(Seqs) + 1)
    /\ UNCHANGED <<memory, history, chatFaults, trimmed>>

InsertPart(r, stage, part, seq, next) ==
    /\ ChatAt(r, stage)
    /\ IF seq \in Seqs
       THEN ChatGoes(r, "count", 0) /\ UNCHANGED <<memory, trimmed>>
       ELSE /\ memory' = memory \cup {Message(seq, r, part)}
            /\ ChatGoes(r, next, chat[r].read)
            /\ trimmed' = [trimmed EXCEPT !.reused = @ \/ seq <= trimmed.upTo]
    /\ UNCHANGED <<history, chatFaults>>

InsertMany(r) ==
    \/ InsertPart(r, "question", 1, chat[r].read, "answer")
    \/ InsertPart(r, "answer", 2, chat[r].read + 1, "count")

(***************************************************************************)
(* Trim counts, finds the oldest messages beyond the limit, and deletes up *)
(* to the last of them.                                                    *)
(***************************************************************************)
ExcessLess(count) == count - MaxMessages - 1      \* an altered Excess
Excess(count) == count - MaxMessages

TrimCounts(r) ==
    /\ ChatAt(r, "count")
    /\ LET excess == Excess(Cardinality(memory))
       IN  ChatGoes(r, IF excess > 0 THEN "find" ELSE "finished", excess)
    /\ UNCHANGED <<memory, history, chatFaults, trimmed>>

TrimFinds(r) ==
    /\ ChatAt(r, "find")
    /\ LET oldest == Oldest(chat[r].read)
       IN  IF oldest = {} THEN ChatGoes(r, "finished", 0)
           ELSE ChatGoes(r, "delete", Max({m.seq : m \in oldest}))
    /\ UNCHANGED <<memory, history, chatFaults, trimmed>>

Trimming(r) == chat[r].at \in {"find", "delete"}

TrimDeletes(r) ==
    /\ ChatAt(r, "delete") /\ ChatGoes(r, "finished", 0)
    /\ memory' = {m \in memory : m.seq > chat[r].read}
    /\ trimmed' = [trimmed EXCEPT !.upTo = Max({@, chat[r].read}),
                                  !.crossed = @ \/ \E q \in ChatRuns \ {r} : Trimming(q)]
    /\ UNCHANGED <<history, chatFaults>>

(***************************************************************************)
(* A call that fails: Load leaves the agent without history, an append is  *)
(* lost from there on, a trim is not made.                                 *)
(***************************************************************************)
CallFails(r) ==
    /\ chatFaults < MaxChatFaults /\ chatFaults' = chatFaults + 1
    /\ \/ ChatAt(r, "load") /\ ChatGoes(r, "append", 0)
       \/ chat[r].at \in {"append", "question", "answer"} /\ ChatGoes(r, "count", 0)
       \/ chat[r].at \in {"count", "find", "delete"} /\ ChatGoes(r, "finished", 0)
    /\ UNCHANGED <<memory, history, trimmed>>

ChatNext ==
    \E r \in ChatRuns :
        \/ LoadHistory(r) \/ AppendReads(r) \/ InsertMany(r)
        \/ TrimCounts(r) \/ TrimFinds(r) \/ TrimDeletes(r) \/ CallFails(r)

ChatSpec == ChatInit /\ [][ChatNext]_chatVars

----------------------------------------------------------------------------
AnswersFollow(messages) ==
    \A a \in messages : a.part = 2 =>
        \/ \A m \in messages : a.seq <= m.seq
        \/ Message(a.seq - 1, a.run, 1) \in messages

(***************************************************************************)
(* However the runs of a session overlap: when all have finished and no    *)
(* call failed, Trim has kept the memory within its limit; while trims do  *)
(* not overlap they take off the excess and no more (overlapping ones each *)
(* take it off, down to nothing); and in the memory, and so in what an     *)
(* agent is shown, an answer comes right after its own question, unless    *)
(* that one was trimmed, until a seq at or below a trimmed one is used,    *)
(* as the first one after the memory was emptied is.                       *)
(***************************************************************************)
MemorySound ==
    /\ chatFaults = 0 /\ (\A r \in ChatRuns : ChatAt(r, "finished")) =>
          Cardinality(memory) <= MaxMessages
    /\ trimmed.upTo > 0 /\ ~trimmed.crossed => Cardinality(memory) >= MaxMessages
    /\ ~trimmed.reused => AnswersFollow(memory) /\ \A r \in ChatRuns : AnswersFollow(history[r])

=============================================================================
