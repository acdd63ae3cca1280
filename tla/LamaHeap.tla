------------------------------ MODULE LamaHeap ------------------------------
(***************************************************************************)
(* The garbage-collected heap of the Lama runtime (runtime/gc.c) at word   *)
(* granularity: the layout of its objects, the memory chunk that holds     *)
(* them, the forward_address word of every header, and the words outside   *)
(* the heap that the collector treats as roots.                            *)
(*                                                                         *)
(* Addresses are word addresses (natural numbers).  A word is either an    *)
(* unboxed value (low bit set: an element of Unboxed) or an address.  A    *)
(* pointer to an object is the address of its CONTENT, HeaderWords above   *)
(* the address of its header, exactly as in the code.                      *)
(***************************************************************************)
EXTENDS Integers, Sequences, FiniteSets

CONSTANTS
  Unboxed,      \* the unboxed words, UNBOXED(x): no unboxed word is an address
  Loc,          \* addresses of the words outside the heap that can hold a value
  StackArea,    \* the words from __gc_stack_top + 1 up to __gc_stack_bottom
  StackBottom,  \* the word at __gc_stack_bottom itself
  GlobalArea    \* the words from __start_custom_data to __stop_custom_data

Word == Unboxed \cup Nat

ASSUME HeapAssumption ==
  /\ Unboxed \cap Nat = {}
  /\ StackArea \in Seq(Loc)
  /\ StackBottom \in Loc
  /\ GlobalArea \in Seq(Loc)

VARIABLES
  heap,   \* memory_chunk: first word, size in words, allocation pointer
  mem,    \* header address -> object stored there
  fwd,    \* header address -> its forward_address word, split into its parts
  slots,  \* Loc -> word stored there
  extra   \* extra_roots.roots[0 .. current_free - 1]

heapVars == <<heap, mem, fwd, slots, extra>>

-----------------------------------------------------------------------------
(* Layout.  flds are the words the field iterator visits; the tag word of  *)
(* an s-expression, the code pointer of a closure and the characters of a  *)
(* string are skipped by it and are represented by the identity id that an *)
(* object keeps for life (the field id of a DEBUG_VERSION header).         *)

HeaderWords == 2

Kinds == {"ARRAY", "CLOSURE", "STRING", "SEXP"}

\* BYTES_TO_WORDS of array_size, closure_size, string_size and sexp_size.
obj_words(kind, len) ==
  CASE kind = "ARRAY"   -> HeaderWords + len
    [] kind = "CLOSURE" -> HeaderWords + len
    [] kind = "SEXP"    -> HeaderWords + len + 1
    [] OTHER            -> HeaderWords + (len \div 8) + 1

\* How many words field_begin_iterator .. get_end_of_obj enumerates.
num_fields(kind, len) ==
  CASE kind = "ARRAY"   -> len
    [] kind = "SEXP"    -> len
    [] kind = "CLOSURE" -> len - 1
    [] OTHER            -> 0

Object ==
  [kind : Kinds, len : Nat, id : Nat, flds : Seq(Word)]

\* An object whose header agrees with the words that follow it.
ObjectOK(o) ==
  /\ o \in Object
  /\ o.kind = "CLOSURE" => o.len >= 1
  /\ Len(o.flds) = num_fields(o.kind, o.len)

\* forward_address: an address in the high bits, the mark bit (1) and the
\* enqueued bit (2) in the low ones.
ForwardWord == [addr : Nat, mark : BOOLEAN, enq : BOOLEAN]

get_object_content_ptr(h) == h + HeaderWords
get_obj_header_ptr(p)     == p - HeaderWords

-----------------------------------------------------------------------------
(* The heap iterator and the pointer tests.                                *)

size_at(h) == obj_words(mem[h].kind, mem[h].len)

heap_next_obj_iterator(h) == h + size_at(h)
heap_is_done_iterator(h)  == h >= heap.current

heap_end == heap.begin + heap.size

is_valid_pointer(v) == v \notin Unboxed

is_valid_heap_pointer(v) ==
  /\ is_valid_pointer(v)
  /\ heap.begin <= v
  /\ v <= heap.current

is_marked(v)   == fwd[get_obj_header_ptr(v)].mark
is_enqueued(v) == fwd[get_obj_header_ptr(v)].enq

-----------------------------------------------------------------------------
(* What it means for the heap to be in order between two collections.      *)

HeapTypeOK ==
  /\ heap \in [begin : Nat, size : Nat, current : Nat]
  /\ DOMAIN mem \subseteq Nat
  /\ \A h \in DOMAIN mem : ObjectOK(mem[h])
  /\ fwd \in [DOMAIN mem -> ForwardWord]
  /\ slots \in [Loc -> Word]
  /\ extra \in Seq(Loc)

\* The objects tile the allocated part of the chunk: the heap iterator,
\* started at heap.begin, meets each header once and stops at heap.current.
Tiled ==
  /\ heap.begin <= heap.current
  /\ heap.current <= heap_end
  /\ heap.begin # heap.current => heap.begin \in DOMAIN mem
  /\ \A h \in DOMAIN mem :
       /\ heap.begin <= h
       /\ heap_next_obj_iterator(h) <= heap.current
       /\ heap_next_obj_iterator(h) # heap.current
            => heap_next_obj_iterator(h) \in DOMAIN mem
  /\ \A g, h \in DOMAIN mem : g < h => heap_next_obj_iterator(g) <= h

\* A word that passes the pointer test is the content address of an object.
SoundWord(v) == is_valid_heap_pointer(v) => get_obj_header_ptr(v) \in DOMAIN mem

\* Mistaken variant: scan_extra_roots is not called.
RootsWithoutExtra == StackArea \o GlobalArea

\* mark_phase visits the stack, then the extra roots, then the global area.
RootOrder == StackArea \o extra \o GlobalArea

RootsSound  == \A i \in 1..Len(RootOrder) : SoundWord(slots[RootOrder[i]])
FieldsSound ==
  \A h \in DOMAIN mem : \A i \in 1..Len(mem[h].flds) : SoundWord(mem[h].flds[i])

\* No object is marked or enqueued while the program runs.
AtRest == \A h \in DOMAIN fwd : ~fwd[h].mark /\ ~fwd[h].enq
=============================================================================
