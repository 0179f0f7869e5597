----------------------------- MODULE CharStream -----------------------------
(***************************************************************************)
(* What getchar() promises: characters go to readers in the order in which *)
(* they came, the oldest reader first, each one once.  A character without *)
(* a reader is kept, unless BufferSize are kept already.  Module Devices   *)
(* is the driver, the interrupt and the system call that implement this.   *)
(***************************************************************************)
EXTENDS Integers, Sequences, SequencesExt

CONSTANTS Threads, Chars,
          Nobody,      \* no thread has been given a character yet
          BufferSize

VARIABLES
    kept,     \* characters that nobody has read, oldest first
    readers,  \* threads that wait for one, oldest first
    given     \* the reader that was last given a character, and the character

streamVars == <<kept, readers, given>>

Init == kept = <<>> /\ readers = <<>> /\ given = Nobody

\* A character comes for the oldest reader, or is kept, or is lost.
Come(c) ==
    \/ /\ readers # <<>>
       /\ given' = <<Head(readers), c>>
       /\ readers' = Tail(readers)
       /\ UNCHANGED kept
    \/ /\ readers = <<>> /\ Len(kept) < BufferSize
       /\ kept' = Append(kept, c)
       /\ UNCHANGED <<readers, given>>
    \/ /\ readers = <<>> /\ Len(kept) = BufferSize
       /\ UNCHANGED streamVars

\* Thread t reads the oldest character or waits for one.
Read(t) ==
    /\ t \notin ToSet(readers)
    /\ \/ /\ kept # <<>>
          /\ given' = <<t, Head(kept)>>
          /\ kept' = Tail(kept)
          /\ UNCHANGED readers
       \/ /\ kept = <<>>
          /\ readers' = Append(readers, t)
          /\ UNCHANGED <<kept, given>>

Next == (\E c \in Chars : Come(c)) \/ (\E t \in Threads : Read(t))

Spec == Init /\ [][Next]_streamVars
=============================================================================
