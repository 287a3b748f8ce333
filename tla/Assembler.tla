----------------------------- MODULE Assembler -------------------------------
(***************************************************************************)
(* tools/ground/payload.py: the ground's image assembler.  Chunks of one   *)
(* image id and chunk count are collected until all have arrived; the pair *)
(* is then remembered for a while so that a repeat is not saved again.     *)
(***************************************************************************)
EXTENDS Integers, Sequences, FiniteSets, SequencesExt

CONSTANTS
    DoneKept,     \* maxlen of Assembler.done
    RequestMax    \* CHUNK_REQUEST_MAX

ASSUME AssemblerAssumption == DoneKept \in Nat \ {0} /\ RequestMax \in Nat \ {0}

VARIABLES
    images,   \* Assembler.images: image id -> chunk count and the parts so far
    done,     \* Assembler.done, oldest first
    saved     \* the images handed over so far, in order, each with its id and parts

assemblerVars == <<images, done, saved>>

AssemblerInit == images = <<>> /\ done = <<>> /\ saved = <<>>

\* What chunk p (image_id, chunk, chunks, data) is added to: the image open under
\* that id, unless it has another chunk count.
Collected(p) ==
    IF p.id \in DOMAIN images /\ images[p.id].chunks = p.chunks
      THEN images[p.id].parts ELSE <<>>

IsDone(p) == Contains(done, <<p.id, p.chunks>>)

\* Mutant: a finished image is not remembered.
RememberNothing(pair) == done

\* done is a deque: a new pair pushes the oldest out.
Remember(pair) ==
    IF Len(done) = DoneKept THEN Append(Tail(done), pair) ELSE Append(done, pair)

\* Assembler.push.
Push(p) ==
    LET old   == Collected(p)
        parts == [c \in DOMAIN old \cup {p.chunk} |-> IF c = p.chunk THEN p.data ELSE old[c]]
        whole == Cardinality(DOMAIN parts) = p.chunks
    IN IF IsDone(p) THEN UNCHANGED assemblerVars
       ELSE IF whole
         THEN /\ images' = [i \in DOMAIN images \ {p.id} |-> images[i]]
              /\ done' = Remember(<<p.id, p.chunks>>)
              /\ saved' = Append(saved, [id |-> p.id, parts |-> parts])
         ELSE /\ images' = [i \in DOMAIN images \cup {p.id} |->
                              IF i = p.id THEN [chunks |-> p.chunks, parts |-> parts]
                              ELSE images[i]]
              /\ UNCHANGED <<done, saved>>

\* Assembler.pending: the newest incomplete image and what it lacks.
Pending(i) == i \in DOMAIN images /\ \A j \in DOMAIN images : j <= i

Missing(i) == {c \in 0..(images[i].chunks - 1) : c \notin DOMAIN images[i].parts}

\* Session._request_chunks: the first RequestMax of them, in order.
Batch(i, b) ==
    /\ \A k, l \in DOMAIN b : k < l => b[k] < b[l]
    /\ \A c \in Missing(i) \ Range(b) :
          Len(b) = RequestMax /\ \A k \in DOMAIN b : b[k] < c
==============================================================================
