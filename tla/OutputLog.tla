------------------------------ MODULE OutputLog ------------------------------
(***************************************************************************)
(* The output of a background session and who reads it: OutputBuffer and   *)
(* read_into_buffer of process_manager.rs, the UTF-8 side of OutputDecoder *)
(* (tools/text.rs), the pages of poll, log and portal_subagent_log, and    *)
(* the tail in an exit callback (heart_callback.rs).                       *)
(*                                                                         *)
(* Two readers decode chunks that end anywhere, even inside a character,   *)
(* into one ring that forgets its oldest characters; a client follows it   *)
(* with the next_offset of each answer.  Offsets and limits count bytes,   *)
(* so every boundary below falls into the middle of a character somewhere. *)
(* Waiting for output is part of ProcessManager.                           *)
(***************************************************************************)
EXTENDS Sequences, FiniteSetsExt

CONSTANTS
    Pipes,           \* stdout and stderr
    Characters,      \* [raw |-> bytes in the pipe, wide |-> bytes in the ring]
    MaxChars,        \* bound on the characters of one pipe
    MaxBytes,        \* size of the ring
    Limits,          \* page limits of the client, at least one character wide
    TailBytes,       \* CALLBACK_OUTPUT_MAX_BYTES
    FallbackBytes    \* CALLBACK_OUTPUT_FALLBACK_BYTES

ASSUME CharacterAssumption ==
    Characters \subseteq [raw : Nat \ {0}, wide : Nat \ {0}]
ASSUME SizeAssumption ==
    /\ Limits \cup {MaxChars, MaxBytes, TailBytes, FallbackBytes} \subseteq Nat
    /\ FallbackBytes <= TailBytes /\ TailBytes <= MaxBytes
    /\ \A size \in Limits \cup {FallbackBytes}, c \in Characters : size >= c.wide /\ size >= 3

VARIABLES
    script,    \* [Pipes -> the characters the child writes]
    taken,     \* [Pipes -> how many of them were decoded]
    pending,   \* [Pipes -> bytes of the next one the decoder holds]
    closed,       \* pipes that ended
    text,      \* everything ever appended to the ring
    dropped,   \* how many characters of it the ring has forgotten
    offset,    \* the client's next_offset
    page,      \* the last answer to the client
    report     \* the exit callback

logVars == <<script, taken, pending, closed, text, dropped, offset, page, report>>

(* U+FFFD, for a character that was cut off by the end of its pipe. *)
Replacement == [raw |-> 1, wide |-> 3]

NoPage == [after |-> 0, first |-> 1, last |-> 0, truncated |-> FALSE]
NoTail == [first |-> 0, truncated |-> FALSE]

LogInit ==
    /\ script \in [Pipes -> [1..MaxChars -> Characters]]
    /\ taken = [p \in Pipes |-> 0]
    /\ pending = [p \in Pipes |-> 0]
    /\ closed = {}
    /\ text = <<>>
    /\ dropped = 0
    /\ offset = 0
    /\ page = NoPage
    /\ report = NoTail

(* The sums of the first numbers of a sequence, from none of them to all.  *)
Sums(sizes) ==
    LET sum[k \in 0..Len(sizes)] == IF k = 0 THEN 0 ELSE sum[k - 1] + sizes[k]
    IN  sum

(* The byte offset of each boundary between characters, in a pipe and in   *)
(* the ring: the width of what lies before.                                *)
Raw(chars)  == Sums([i \in 1..Len(chars) |-> chars[i].raw])
Wide(chars) == Sums([i \in 1..Len(chars) |-> chars[i].wide])

-----------------------------------------------------------------------------
(* The ring, which keeps the characters after the first `dropped`. *)

Upto(k) == Wide(text)[k]
Total   == Upto(Len(text))
Start   == Upto(dropped)

(* append(): forgets whole characters until the rest fits. *)
Appends(chunk) ==
    /\ text' = text \o chunk
    /\ LET end == Wide(text')
       IN  dropped' = Min({k \in dropped..Len(text') : end[Len(text')] - end[k] <= MaxBytes})

(* snapshot_tail() and tail(): the whole characters of the last max bytes. *)
TailAfter(max) == Min({k \in dropped..Len(text) : Total - Upto(k) <= max})

-----------------------------------------------------------------------------
(* read_into_buffer() and the decoder *)

Marked(p, n, c) == [pipe |-> p, n |-> n, wide |-> c.wide]

(* What a pipe has delivered to its reader, n more bytes included; and the *)
(* characters that are complete in it.                                     *)
Delivered(p, n) == Raw(script[p])[taken[p]] + pending[p] + n
Complete(p, n) == Max({k \in taken[p]..MaxChars : Raw(script[p])[k] <= Delivered(p, n)})
Decoded(p, k) == [i \in 1..(k - taken[p]) |-> Marked(p, taken[p] + i, script[p][taken[p] + i])]

ReadChunk(p, n) ==
    /\ p \notin closed
    /\ Delivered(p, n) <= Raw(script[p])[MaxChars]
    /\ LET k == Complete(p, n)
       IN  /\ Appends(Decoded(p, k))
           /\ taken' = [taken EXCEPT ![p] = k]
           /\ pending' = [pending EXCEPT ![p] = Delivered(p, n) - Raw(script[p])[k]]
    /\ UNCHANGED <<script, closed, offset, page, report>>

(* The child may end, or close the pipe, within a character. *)
ReadEof(p) ==
    /\ p \notin closed
    /\ closed' = closed \cup {p}
    /\ Appends(IF pending[p] = 0 THEN <<>> ELSE <<Marked(p, taken[p] + 1, Replacement)>>)
    /\ pending' = [pending EXCEPT ![p] = 0]
    /\ UNCHANGED <<script, taken, offset, page, report>>

-----------------------------------------------------------------------------
(* poll(), log() and page(): bytes_range(), or bytes_since() without limit *)

Unlimited == MaxBytes

(* The boundary a byte offset denotes, if it is one. *)
At(from) == {k \in dropped..Len(text) : Upto(k) = from}
Asked == IF offset < Start THEN Start ELSE offset

NextOffsetAsAsked(last, first) == offset + Upto(last) - Upto(first - 1)  \* mutant
NextOffset(last, first) == Upto(last)

Answers(first, last) ==
    /\ page' = [after |-> page.last, first |-> first, last |-> last,
                truncated |-> offset < Start]
    /\ offset' = NextOffset(last, first)
    /\ UNCHANGED <<script, taken, pending, closed, text, dropped, report>>

NothingNew ==
    /\ Asked >= Total
    /\ Answers(Len(text) + 1, Len(text))

TakePage(limit) ==
    /\ Asked < Total
    /\ \E k \in At(Asked) :
          LET end == Max({j \in k..Len(text) : Upto(j) - Upto(k) <= limit})
          IN  end > k /\ Answers(k + 1, end)

(* The exit callback: the tail, or less of it if its JSON grows too large. *)
SendTail(max) ==
    /\ report = NoTail
    /\ text # <<>>
    /\ LET k == TailAfter(max)
       IN  report' = [first |-> k + 1, truncated |-> Total - Upto(k) < Total]
    /\ UNCHANGED <<script, taken, pending, closed, text, dropped, offset, page>>

LogNext ==
    \/ \E p \in Pipes : ReadEof(p) \/ \E n \in 1..Raw(script[p])[MaxChars] : ReadChunk(p, n)
    \/ NothingNew
    \/ \E limit \in Limits \cup {Unlimited} : TakePage(limit)
    \/ \E max \in {TailBytes, FallbackBytes} : SendTail(max)

LogSpec == LogInit /\ [][LogNext]_logVars

-----------------------------------------------------------------------------
(* A client that follows next_offset gets every character, whole and once, *)
(* and its offset is never refused; where the ring was faster than the     *)
(* client the answer says so, and only there.                              *)
FollowedWhole ==
    /\ Asked < Total => At(Asked) # {}
    /\ page.last > 0 =>
          IF page.truncated THEN page.first > page.after + 1 ELSE page.first = page.after + 1

(* "Chunk boundaries and stdout/stderr interleaving must not change how a  *)
(* character is decoded" (tools/text.rs): each pipe appears in its order,  *)
(* with every character that arrived completely.                           *)
DecodedWhole ==
    \A p \in Pipes :
        LET of == {i \in DOMAIN text : text[i].pipe = p}
        IN  /\ \A i, j \in of : i < j => text[i].n < text[j].n
            /\ \A n \in 1..taken[p] : \E i \in of : text[i].n = n
            /\ \A i \in of :
                  \/ text[i].n \in 1..taken[p] /\ text[i].wide = script[p][text[i].n].wide
                  \/ text[i].n = taken[p] + 1 /\ p \in closed /\ text[i].wide = Replacement.wide

(* The being knows whether the callback is all the session ever said.      *)
TailTold == report # NoTail => (report.truncated <=> report.first > 1)

(* What a session printed reaches its readers whole and in order, and      *)
(* where it cannot, they are told.                                         *)
OutputFaithful == FollowedWhole /\ DecodedWhole /\ TailTold
=============================================================================
