-------------------------------- MODULE Trace --------------------------------
(***************************************************************************)
(* How Preprocess.py rewrites a call TRACE("format", arguments) of an      *)
(* application: RewriteTrace scans the tokens up to the end of the call,   *)
(* splits them into arguments, and writes an initializer for the fields    *)
(* b0, b1, ... of a record that one of the functions Usart_Trace<n> sends. *)
(*                                                                         *)
(* A format is the sequence of the sizes that follow its percent signs.  A *)
(* token that becomes part of an argument is its position in the call.     *)
(***************************************************************************)
EXTENDS Integers, Sequences, SequencesExt, FiniteSets

CONSTANTS Formats,     (* the formats in use                                  *)
          MaxTokens    (* tokens between the format and the end of a call     *)

ASSUME FormatsAssumption == Formats \subseteq Seq({8, 16, 32})   \* argCast
ASSUME MaxTokensAssumption == MaxTokens \in Nat

VARIABLES format,          (* the format of this call                         *)
          tokens,          (* the tokens behind it, as far as they were read  *)
          nesting,         (* local variables of RewriteTrace                 *)
          singleArg,
          traceArgTokens,
          z,
          fields,          (* what was written: field b<i> is a byte of an    *)
                           (* argument, in the order of writing               *)
          pc               (* "dump" between calls, "scan", "write", "failed" *)

traceVars == <<format, tokens, nesting, singleArg, traceArgTokens, z, fields, pc>>

(* EvalArgs: the bytes of all arguments.                                    *)
NrOfBytes == FoldLeft(LAMBDA sum, size : sum + size, 0, format) \div 8

TraceInit ==
  /\ format = <<>> /\ tokens = <<>>
  /\ nesting = 0 /\ singleArg = <<>> /\ traceArgTokens = <<>>
  /\ z = 0 /\ fields = <<>>
  /\ pc = "dump"

RewriteTrace(sizes) ==
  /\ pc = "dump"
  /\ format' = sizes
  /\ tokens' = <<>>
  /\ nesting' = 1 /\ singleArg' = <<>> /\ traceArgTokens' = <<>>
  /\ z' = 0 /\ fields' = <<>>
  /\ pc' = "scan"

(* A comma on the outermost level ends an argument, unless it is empty.     *)
(* Commas and parentheses are not kept.  (Mutant: an argument is not        *)
(* forgotten when it has ended.)                                            *)
MutantKeepsArgument == singleArg
AfterComma == <<>>

Comma ==
  /\ pc = "scan" /\ Len(tokens) < MaxTokens
  /\ tokens' = Append(tokens, "comma")
  /\ IF nesting = 1 /\ singleArg # <<>>
       THEN traceArgTokens' = Append(traceArgTokens, singleArg) /\ singleArg' = AfterComma
       ELSE UNCHANGED <<traceArgTokens, singleArg>>
  /\ UNCHANGED <<format, nesting, z, fields, pc>>

LPar ==
  /\ pc = "scan" /\ Len(tokens) < MaxTokens
  /\ tokens' = Append(tokens, "lpar")
  /\ nesting' = nesting + 1
  /\ UNCHANGED <<format, singleArg, traceArgTokens, z, fields, pc>>

Other ==
  /\ pc = "scan" /\ Len(tokens) < MaxTokens
  /\ tokens' = Append(tokens, "other")
  /\ singleArg' = Append(singleArg, Len(tokens) + 1)
  /\ UNCHANGED <<format, nesting, traceArgTokens, z, fields, pc>>

(* The parenthesis that ends the call also ends the last argument, which    *)
(* may be empty.  More than four bytes have no record type, and sizes and   *)
(* arguments must be equally many.                                          *)
EndsCall == nesting = 1

RPar ==
  /\ pc = "scan"
  /\ tokens' = Append(tokens, "rpar")
  /\ nesting' = nesting - 1
  /\ IF EndsCall
       THEN /\ traceArgTokens' = Append(traceArgTokens, singleArg)
            /\ pc' = IF NrOfBytes <= 4 /\ Len(format) \in {0, Len(traceArgTokens')}
                       THEN "write" ELSE "failed"
       ELSE UNCHANGED <<traceArgTokens, pc>>
  /\ UNCHANGED <<format, singleArg, z, fields>>

(* The end of the file before the end of the call.                          *)
EndOfFile ==
  /\ pc = "scan"
  /\ pc' = "failed"
  /\ UNCHANGED <<format, tokens, nesting, singleArg, traceArgTokens, z, fields>>

(* The arguments that have been written.                                    *)
Written == {fields[i].arg : i \in 1..Len(fields)}

(* WriteTraceArg writes the bytes of an argument, the highest first, and    *)
(* returns the field of the last one, where the next argument begins.       *)
(* (Mutant: the lowest byte first.)                                         *)
MutantLowestFirst(i, bytes) == i
ByteAt(i, bytes) == bytes - 1 - i
Returned(bytes) == z + bytes - 1

WriteTraceArg ==
  /\ pc = "write" /\ Cardinality(Written) < Len(format)
  /\ LET arg == Cardinality(Written) + 1
         bytes == format[arg] \div 8
     IN  /\ fields' = fields \o
              [i \in 1..bytes |->
                 [field |-> z + i - 1, arg |-> arg, byte |-> ByteAt(i - 1, bytes)]]
         /\ z' = Returned(bytes)
  /\ UNCHANGED <<format, tokens, nesting, singleArg, traceArgTokens, pc>>

CallEnds ==
  /\ pc = "write" /\ Cardinality(Written) = Len(format)
  /\ pc' = "dump"
  /\ UNCHANGED <<format, tokens, nesting, singleArg, traceArgTokens, z, fields>>

TraceNext ==
  \/ \E sizes \in Formats : RewriteTrace(sizes)
  \/ Comma \/ LPar \/ Other \/ RPar
  \/ EndOfFile
  \/ WriteTraceArg
  \/ CallEnds

-----------------------------------------------------------------------------

(* Parentheses that are open behind the first k tokens, that of the call    *)
(* included.                                                                *)
Depth(k) ==
  1 + Cardinality({i \in 1..k : tokens[i] = "lpar"})
    - Cardinality({i \in 1..k : tokens[i] = "rpar"})

(* The arguments have all tokens of the call except commas and parentheses, *)
(* each one once and in their order, and two tokens are in the same         *)
(* argument just if no comma of the outermost level is between them.  The   *)
(* scan ends at the parenthesis that closes the call.                       *)
ArgumentsAreSplit ==
  LET args == traceArgTokens
      others == {k \in 1..Len(tokens) : tokens[k] = "other"}
      ArgOf(i) == {a \in 1..Len(args) : Contains(args[a], i)}
  IN  pc = "write" =>
        /\ Depth(Len(tokens)) = 0 /\ \A k \in 0..(Len(tokens) - 1) : Depth(k) > 0
        /\ \A i \in others : ArgOf(i) # {}
        /\ \A a, b \in 1..Len(args) : \A k \in 1..Len(args[a]), l \in 1..Len(args[b]) :
             /\ args[a][k] \in others
             /\ a < b \/ (a = b /\ k < l) => args[a][k] < args[b][l]
        /\ \A i, j \in others :
             i < j => (ArgOf(i) = ArgOf(j) <=>
                         \A k \in i..j : tokens[k] = "comma" => Depth(k) # 1)

(* The fields as the compiler initializes them: the last value counts.      *)
FieldsWritten == {fields[i].field : i \in 1..Len(fields)}
ValueOf(f) ==
  fields[CHOOSE i \in 1..Len(fields) :
           /\ fields[i].field = f
           /\ \A j \in (i+1)..Len(fields) : fields[j].field # f]

(* All fields that are written exist in the record, and the last argument   *)
(* arrives whole, its highest byte first.  (Of each other one the last byte *)
(* is overwritten by the next, and as many fields at the end stay 0.)       *)
LastArgumentArrives ==
  pc = "dump" /\ fields # <<>> =>
    LET last == Len(format)
        bytes == format[last] \div 8
        first == NrOfBytes - bytes - (last - 1)
    IN  /\ FieldsWritten = 0..(NrOfBytes - last)
        /\ \A i \in 0..(bytes - 1) :
             ValueOf(first + i).arg = last /\ ValueOf(first + i).byte = bytes - 1 - i

=============================================================================
