------------------------------ MODULE CString ------------------------------
(***************************************************************************)
(* What a std::string_view (or a span of bytes) says and what a C function *)
(* reads that is given only its data(): the client passes keys, bucket     *)
(* names and string values this way.  A view is a stretch of a buffer; the *)
(* C function reads from its beginning to the next NUL.  Buffers without a *)
(* NUL from there on would be read past their end and are left out.        *)
(***************************************************************************)
EXTENDS Naturals, Sequences, FiniteSetsExt

NUL == 0

View(buffer, first, size) == [buffer |-> buffer, first |-> first, size |-> size]

Terminated(view) ==
  \E i \in view.first .. Len(view.buffer) : view.buffer[i] = NUL

(* size() elements from data().                                            *)
Text(view) == SubSeq(view.buffer, view.first, view.first + view.size - 1)

(* What strlen and strcpy see at data().                                   *)
Reads(view) ==
  LET ends == {i \in view.first .. Len(view.buffer) : view.buffer[i] = NUL}
  IN SubSeq(view.buffer, view.first, Min(ends) - 1)
=============================================================================
