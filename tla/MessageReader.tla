--------------------------- MODULE MessageReader ---------------------------
(***************************************************************************)
(* readMessage of server/server.go and the pool of read buffers that the   *)
(* goroutines of serve share (server/bufio_reader_pool.go).  ReadSlice     *)
(* returns a slice of the buffer itself, parseMessage reads it there, and  *)
(* the buffer then goes back to the pool with whatever else it holds.      *)
(***************************************************************************)
EXTENDS Integers, Sequences, FiniteSets

CONSTANTS Conn,             \* the connections, each with its goroutine
          Patient,          \* those whose client waits for each response
          Buffer,           \* the bufio.Readers that may be allocated
          MaxMessageSize,   \* s.MaxMessageSize
          MinBufferSize,    \* bufio's minReadBufferSize, which is 16
          LineLengths,      \* the lengths of the lines that clients send
          Lines             \* bound: how many lines each client sends

ASSUME ReaderAssumption == /\ Patient \subseteq Conn
                           /\ MaxMessageSize \in Nat
                           /\ MinBufferSize \in Nat \ {0}
                           /\ LineLengths \subseteq Nat \ {0}

VARIABLES pool,     \* the buffers in p.pool
          memory,   \* memory[k]: what buffer k holds
          buf,      \* buf[c]: the buffer that readMessage has for c, if any
          pc,       \* pc[c]: where readMessage is for c
          stream,   \* stream[c]: the bytes sent to c's socket and not read
          sent,     \* sent[c]: the length of each line the client has sent
          result,   \* result[c]: what readMessage returns, or last returned
          read,     \* read[c]: how many lines readMessage has returned
          failed    \* failed[c]: whether a read has ever failed

pooling == <<pool, memory, buf>>
rvars   == <<pooling, pc, stream, sent, result, read, failed>>

\* A line is its bytes, numbered so that they can be told apart, and a newline.
Line(c, i, n) == [j \in 1..n |-> [conn |-> c, line |-> i, pos |-> j, newline |-> j = n]]

\* bufio.NewReaderSize makes no buffer smaller than its minimum.
BufSize == IF MaxMessageSize < MinBufferSize THEN MinBufferSize ELSE MaxMessageSize

Set(f, c, v) == [f EXCEPT ![c] = v]

\* A message, or an error from readMessage and no message.
Message(bytes) == [err |-> "nil", bytes |-> bytes]
Error(e)       == [err |-> e, bytes |-> <<>>]

RInit == /\ pool = {}
         /\ memory = [k \in Buffer |-> <<>>]
         /\ buf = [c \in Conn |-> {}]
         /\ pc = [c \in Conn |-> "serve"]
         /\ stream = [c \in Conn |-> <<>>]
         /\ sent = [c \in Conn |-> <<>>]
         /\ result = [c \in Conn |-> Error("none")]
         /\ read = [c \in Conn |-> 0]
         /\ failed = [c \in Conn |-> FALSE]

\* Clients that do not wait send all they have at any time.  The response to a
\* line is sent once readMessage has returned, behind "put".
Send(c) == /\ Len(sent[c]) < Lines
           /\ c \in Patient => Len(sent[c]) = read[c] /\ pc[c] # "put"
           /\ \E n \in LineLengths :
                /\ sent' = Set(sent, c, Append(sent[c], n))
                /\ stream' = Set(stream, c, stream[c] \o Line(c, Len(sent[c]) + 1, n))
           /\ UNCHANGED <<pooling, pc, result, read, failed>>

-----------------------------------------------------------------------------

\* Mutant: the pool hands out a buffer that is in use.
GetShared(c) == /\ pc[c] = "serve"
                /\ \E k \in Buffer : /\ pool' = pool \ {k}
                                     /\ buf' = Set(buf, c, {k})
                                     /\ memory' = Set(memory, k, <<>>)
                /\ pc' = Set(pc, c, "read")
                /\ UNCHANGED <<stream, sent, result, read, failed>>

\* A buffer from the pool or, if it has none to give, a new one.
Get(c) == /\ pc[c] = "serve"
          /\ \E k \in Buffer \ UNION {buf[d] : d \in Conn} :
               /\ pool' = pool \ {k}
               /\ buf' = Set(buf, c, {k})
               /\ memory' = Set(memory, k, <<>>)
          /\ pc' = Set(pc, c, "read")
          /\ UNCHANGED <<stream, sent, result, read, failed>>

\* Where the first newline in s is: at most one place.
FirstNewline(s) == {i \in DOMAIN s : s[i].newline /\ \A j \in 1..i - 1 : ~s[j].newline}

\* ReadSlice reads what has arrived, in whatever portions, until it finds a
\* newline or its buffer is full.
Fill(c) == /\ pc[c] \in {"read", "discard"}
           /\ \E k \in buf[c] :
                /\ FirstNewline(memory[k]) = {}
                /\ \E n \in 1..BufSize - Len(memory[k]) :
                     /\ n <= Len(stream[c])
                     /\ memory' = Set(memory, k, memory[k] \o SubSeq(stream[c], 1, n))
                     /\ stream' = Set(stream, c, SubSeq(stream[c], n + 1, Len(stream[c])))
           /\ UNCHANGED <<pool, buf, pc, sent, result, read, failed>>

\* Mutant: the rest of a line that is too large is left in the socket.
BufferFullReturns(c) == /\ pc[c] = "read"
                        /\ \E k \in buf[c] : /\ FirstNewline(memory[k]) = {}
                                             /\ Len(memory[k]) >= BufSize
                        /\ result' = Set(result, c, Error("too large"))
                        /\ read' = Set(read, c, read[c] + 1)
                        /\ pc' = Set(pc, c, "put")
                        /\ UNCHANGED <<pooling, stream, sent, failed>>

\* bufio.ErrBufferFull: what the buffer holds is thrown away, and so is what
\* follows, up to the newline.
BufferFull(c) == /\ pc[c] \in {"read", "discard"}
                 /\ \E k \in buf[c] : /\ FirstNewline(memory[k]) = {}
                                      /\ Len(memory[k]) >= BufSize
                                      /\ memory' = Set(memory, k, <<>>)
                 /\ pc' = Set(pc, c, "discard")
                 /\ UNCHANGED <<pool, buf, stream, sent, result, read, failed>>

LineFound(c) == /\ \E k \in buf[c] : FirstNewline(memory[k]) # {}
                /\ \/ /\ pc[c] = "read"
                      /\ pc' = Set(pc, c, "parse")
                      /\ UNCHANGED <<result, read>>
                   \/ /\ pc[c] = "discard"
                      /\ pc' = Set(pc, c, "put")
                      /\ result' = Set(result, c, Error("too large"))
                      /\ read' = Set(read, c, read[c] + 1)
                /\ UNCHANGED <<pooling, stream, sent, failed>>

\* The client has closed, the deadline has passed, or a temporary error: the
\* part of a line that has been read is lost.
ReadFails(c) == /\ pc[c] \in {"read", "discard"}
                /\ \A k \in buf[c] : FirstNewline(memory[k]) = {}
                /\ result' = Set(result, c, Error("error"))
                /\ failed' = Set(failed, c, TRUE)
                /\ pc' = Set(pc, c, "put")
                /\ UNCHANGED <<pooling, stream, sent, read>>

\* Mutant: all of the buffer is parsed, not just the slice.
ParseBuffer(c) == /\ pc[c] = "parse"
                  /\ \E k \in buf[c] : result' = Set(result, c, Message(memory[k]))
                  /\ read' = Set(read, c, read[c] + 1)
                  /\ pc' = Set(pc, c, "put")
                  /\ UNCHANGED <<pooling, stream, sent, failed>>

\* parseMessage copies what it needs out of the slice.
Parse(c) == /\ pc[c] = "parse"
            /\ \E k \in buf[c] : \E i \in FirstNewline(memory[k]) :
                 result' = Set(result, c, Message(SubSeq(memory[k], 1, i)))
            /\ read' = Set(read, c, read[c] + 1)
            /\ pc' = Set(pc, c, "put")
            /\ UNCHANGED <<pooling, stream, sent, failed>>

\* The deferred bufPool.Put, which also resets the buffer.
Put(c) == /\ pc[c] = "put"
          /\ pool' = pool \cup buf[c]
          /\ memory' = [k \in Buffer |-> IF k \in buf[c] THEN <<>> ELSE memory[k]]
          /\ buf' = Set(buf, c, {})
          /\ pc' = Set(pc, c, "serve")
          /\ UNCHANGED <<stream, sent, result, read, failed>>

RNext == \E c \in Conn : \/ Send(c)
                         \/ Get(c) \/ Fill(c) \/ BufferFull(c) \/ LineFound(c)
                         \/ ReadFails(c) \/ Parse(c) \/ Put(c)

RSpec == RInit /\ [][RNext]_rvars

-----------------------------------------------------------------------------

Bytes(s) == {s[i] : i \in DOMAIN s}

Returned(c) == pc[c] = "put" /\ result[c].err = "nil"

\* A goroutine reads the bytes of its own connection only, though the buffers
\* have been and will be others': none is in two hands, or in the pool while
\* a message is still being parsed in it.
OwnBytes == \A c \in Conn : \A k \in buf[c] :
              /\ \A x \in Bytes(memory[k]) : x.conn = c
              /\ k \notin pool
              /\ \A d \in Conn \ {c} : k \notin buf[d]

\* What readMessage returns as a message is one line or the end of one, never
\* the beginning of one line joined to another, even after errors and for
\* clients that do not wait.
NeverJoined ==
  \A c \in Conn : Returned(c) =>
    \E i \in DOMAIN sent[c] : \E j \in 1..sent[c][i] :
      result[c].bytes = SubSeq(Line(c, i, sent[c][i]), j, sent[c][i])

\* For a client that waits, and as long as no read fails, readMessage returns
\* exactly what was sent, and "too large" for exactly the lines that do not fit
\* the buffer; it is then back in step with the client whatever came before.
WholeMessages ==
  \A c \in Patient : pc[c] = "put" /\ ~failed[c] =>
    LET n == sent[c][read[c]]
    IN /\ result[c] = IF n <= BufSize THEN Message(Line(c, read[c], n))
                                       ELSE Error("too large")
       /\ stream[c] = <<>>

\* server.go:23-24 and main.go:16: the server will respond with ERROR to a
\* message that exceeds MaxMessageSize.
SizeLimit == \A c \in Conn : Returned(c) => Len(result[c].bytes) <= MaxMessageSize

=============================================================================
