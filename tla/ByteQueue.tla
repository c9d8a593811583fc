----------------------------- MODULE ByteQueue -----------------------------
(***************************************************************************)
(* What CbQueue and CbString promise (RB/cpp/RiotBase/System), without     *)
(* buffers: a queue is a sequence of bytes that is written at its end and  *)
(* read from its beginning; a string is a sequence of bytes of its own,    *)
(* which nothing done to the queue it was taken from may change.           *)
(* Buffers.tla is the implementation, by chains of shared buffers.         *)
(***************************************************************************)
EXTENDS Naturals, Sequences
LOCAL INSTANCE SequencesExt

CONSTANTS Queues, Strings

VARIABLES content,   \* content[q]: the bytes of queue q
          text,      \* text[s]: the bytes of string s
          got        \* the bytes the last reading gave

vars == <<content, text, got>>

Prefix(s, n) == SubSeq(s, 1, n)
Rest(s, n) == SubSeq(s, n + 1, Len(s))

Init == /\ content = [q \in Queues |-> <<>>]
        /\ text = [s \in Strings |-> <<>>]
        /\ got = <<>>

\* What one call may do to the queue q: bytes at the end or at the beginning,
\* a part removed, everything forgotten, all of p moved into it.
Only(q) == content' = [content EXCEPT ![q] = content'[q]]
Written(q) == Only(q) /\ IsPrefix(content[q], content'[q])
Prepended(q) == Only(q) /\ IsSuffix(content[q], content'[q])
Cut(q) == \E i, j \in 0 .. Len(content[q]) :
             content' = [content EXCEPT ![q] = Prefix(@, i) \o Rest(@, j)]
Forget(q) == content' = [content EXCEPT ![q] = <<>>]
Splice(q, p) == content' = [content EXCEPT ![q] = @ \o content[p], ![p] = <<>>]
Replace(q, p) == content' = [content EXCEPT ![q] = content[p], ![p] = <<>>]

QueueCall == /\ \/ \E q \in Queues : Written(q) \/ Prepended(q) \/ Cut(q) \/ Forget(q)
                \/ \E q, p \in Queues : Splice(q, p) \/ Replace(q, p)
             /\ got' = <<>>
             /\ UNCHANGED text

ReadQueue(q) == \E n \in 0 .. Len(content[q]) :
                   /\ got' = Prefix(content[q], n)
                   /\ content' = [content EXCEPT ![q] = Rest(@, n)]
                   /\ UNCHANGED text

\* A string taken from a queue, with or without removing it from there.
TakeString(q, s) == \E n \in 0 .. Len(content[q]) :
                       /\ text' = [text EXCEPT ![s] = Prefix(content[q], n)]
                       /\ content' \in {content, [content EXCEPT ![q] = Rest(@, n)]}
                       /\ got' = <<>>

CopyString(s, t) == \E i \in 1 .. Len(text[s]), j \in 0 .. Len(text[s]) :
                       /\ text' = [text EXCEPT ![t] = SubSeq(text[s], i, j)]
                       /\ got' = <<>>
                       /\ UNCHANGED content

ReadString(s) == \E n \in 0 .. Len(text[s]) :
                    /\ got' = Prefix(text[s], n)
                    /\ text' = [text EXCEPT ![s] = Rest(@, n)]
                    /\ UNCHANGED content

ForgetString(s) == text' = [text EXCEPT ![s] = <<>>] /\ got' = <<>> /\ UNCHANGED content

Next == \/ QueueCall
        \/ \E q \in Queues : ReadQueue(q)
        \/ \E q \in Queues, s \in Strings : TakeString(q, s)
        \/ \E s, t \in Strings : CopyString(s, t)
        \/ \E s \in Strings : ReadString(s) \/ ForgetString(s)

Spec == Init /\ [][Next]_vars
=============================================================================
