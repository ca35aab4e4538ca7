------------------------- MODULE MCPositionWorkbook --------------------------
(* Every kind is created by a form with every column, of a member's position,  *)
(* and updated by one with the required columns alone.                         *)
EXTENDS PositionWorkbook

CONSTANTS
  v, w,         \* values of columns
  owner

Filled(form, kind, columns, text, term) ==
  [c \in form.must \cup form.may |->
     IF c \notin columns THEN Nil
     ELSE CASE c = "placement_date" -> term[1]
            [] c = "maturity_date" /\ kind = "time_deposit" -> term[2]
            [] c = "bond_type" /\ "face_value" \in columns -> Primary
            [] OTHER -> text]

Full(kind) ==
  [kind |-> kind,
   col |-> Filled(Layers(kind).form, kind, Columns(kind) \cup primaryBondReq, v, <<1, 2>>),
   owner |-> owner, entry |-> "newly_tracked"]

Minimal(form, kind) ==
  [kind |-> kind, col |-> Filled(form, kind, form.must, w, <<0, 1>>),
   owner |-> Joint, entry |-> Nil]

\* A name of spaces is not empty.
Forms ==
  {Full(kind) : kind \in Kind}
  \cup {[Minimal(createBankAccountReq, "bank_account") EXCEPT !.col["display_name"] = Blank]}

Revisions == {Minimal(Layers(kind).revision, kind) : kind \in Kind}

Symmetric == Permutations(TagId) \cup Permutations(Name)
=============================================================================
