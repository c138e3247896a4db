----------------------------- MODULE SqlTemplate -----------------------------
(***************************************************************************)
(* The sql tagged template of packages/db (src/sql/template.ts): how a     *)
(* template with fragments becomes text and parameters, and how the filter *)
(* clauses are injected; and the planner of crates/query-planner that is   *)
(* to take the injection over.                                             *)
(*                                                                         *)
(* The text of a query is the sequence, in the order they are written, of  *)
(* the places where a keyword begins: FROM, WHERE and TAIL (ORDER BY,      *)
(* LIMIT, GROUP BY or HAVING). Its scope says what it belongs to: the      *)
(* SELECT itself, an arm of a UNION, a subquery anywhere in it, a window,  *)
(* or a string literal that contains the word: the code tells none of them *)
(* apart. A WHERE holds the branches of its top-level OR, each the set of  *)
(* the conditions it ANDs. A placeholder $n of the text is the number n.   *)
(***************************************************************************)
EXTENDS Integers, SequencesExt

From(scope) == [keyword |-> "FROM", scope |-> scope, or |-> <<>>]
Where(scope, branches) == [keyword |-> "WHERE", scope |-> scope, or |-> branches]
OrderBy(scope) == [keyword |-> "TAIL", scope |-> scope, or |-> <<>>]

IsWhere(clause) == clause.keyword = "WHERE"
IsTail(clause) == clause.keyword = "TAIL"

OrgIs(tenant) == <<"org_id", tenant>>
NotDeleted == <<"deleted_at", "NULL">>

-----------------------------------------------------------------------------
(* Parameters *)

EmptyFragment == [placeholders |-> <<>>, params |-> <<>>]

\* An inlined fragment: its placeholders are moved behind the parameters so far.
Inline(text, fragment) ==
    LET offset == Len(text.params)
    IN  [ placeholders |-> text.placeholders \o
                           [i \in DOMAIN fragment.placeholders |->
                              fragment.placeholders[i] + offset],
          params |-> text.params \o fragment.params ]

\* A plain value becomes the next parameter.
Bind(text, value) ==
    [ placeholders |-> Append(text.placeholders, Len(text.params) + 1),
      params |-> Append(text.params, value) ]

\* One interpolated value: a fragment is a record, a plain value a number.
Interpolate(text, v) ==
    IF v.fragment THEN Inline(text, v.of) ELSE Bind(text, v.of)

Value(n) == [fragment |-> FALSE, of |-> n]
Fragment(f) == [fragment |-> TRUE, of |-> f]

\* sql`...` and sql.fragment`...` with these interpolated values.
Compile(values) == FoldLeft(Interpolate, EmptyFragment, values)

\* sql.join(fragments, separator)
join(fragments, separator) ==
    LET Piece(i) == IF i % 2 = 1 THEN fragments[(i + 1) \div 2] ELSE separator
        pieces == [i \in 1..(2 * Len(fragments) - 1) |-> Piece(i)]
    IN  IF fragments = <<>> THEN EmptyFragment ELSE FoldLeft(Inline, EmptyFragment, pieces)

-----------------------------------------------------------------------------
(* Filter injection *)

(***************************************************************************)
(* A statement is [select, mentionsOrgId : BOOLEAN, text, values, end,     *)
(* arms]: end is the scope that the end of its text belongs to, and arms   *)
(* say where its rows come from: a row that it selects passes the WHEREs   *)
(* of all scopes of one arm, which are more than one where the FROM of a   *)
(* SELECT is itself a SELECT.                                              *)
(***************************************************************************)

\* A plausible bug: the filters are added to a statement without a WHERE clause only.
injectFilters_NoWhere(stmt, tenantId) ==
    LET text     == stmt.text
        combined == {OrgIs(tenantId), NotDeleted}
        tail     == SelectInSeq(text, IsTail)
    IN  IF ~stmt.select \/ stmt.mentionsOrgId \/ SelectInSeq(text, IsWhere) # 0 THEN text
        ELSE IF tail # 0 THEN InsertAt(text, tail, Where(text[tail].scope, <<combined>>))
        ELSE Append(text, Where(stmt.end, <<combined>>))

\* The first WHERE that the text contains is narrowed, whatever it belongs to; a text
\* without one gets a WHERE in front of its first tail, or at the end.
injectFilters(stmt, tenantId) ==
    LET text     == stmt.text
        combined == {OrgIs(tenantId), NotDeleted}
        where    == SelectInSeq(text, IsWhere)
        tail     == SelectInSeq(text, IsTail)
        Narrow(clause) == Where(clause.scope, [clause.or EXCEPT ![1] = @ \cup combined])
    IN  IF ~stmt.select \/ stmt.mentionsOrgId THEN text
        ELSE IF where # 0 THEN ReplaceAt(text, where, Narrow(text[where]))
        ELSE IF tail # 0 THEN InsertAt(text, tail, Where(text[tail].scope, <<combined>>))
        ELSE Append(text, Where(stmt.end, <<combined>>))

\* The SqlQuery that sql`...` returns.
sql(stmt, tenantId) ==
    LET compiled == Compile(stmt.values)
    IN  [ text         |-> injectFilters(stmt, tenantId),
          placeholders |-> compiled.placeholders,
          params       |-> compiled.params,
          tenantId     |-> tenantId ]

-----------------------------------------------------------------------------
(* crates/query-planner: the conditions that plan() injects for a tenant. *)

injected_filters(select, tenantId) ==
    {OrgIs(tenantId)} \cup (IF select THEN {NotDeleted} ELSE {})

-----------------------------------------------------------------------------
(* What a query selects, to say what the injection has to achieve: a row is *)
(* [org, deleted, holds], holds the conditions of the author that hold.     *)

Satisfies(row, condition) ==
    \/ condition = NotDeleted /\ ~row.deleted
    \/ condition = OrgIs(row.org)
    \/ condition \in row.holds

InBranch(row, branch) == \A c \in branch : Satisfies(row, c)

SelectsIn(text, arm, row) ==
    \A i \in DOMAIN text :
       IsWhere(text[i]) /\ text[i].scope \in arm => \E b \in ToSet(text[i].or) : InBranch(row, b)

Selects(text, arms, row) == \E arm \in arms : SelectsIn(text, arm, row)

\* The scope whose rows the injected filters are about.
FilteredScope(stmt) ==
    LET where == SelectInSeq(stmt.text, IsWhere)
        tail  == SelectInSeq(stmt.text, IsTail)
    IN  IF where # 0 THEN stmt.text[where].scope
        ELSE IF tail # 0 THEN stmt.text[tail].scope
        ELSE stmt.end

\* A branch after the first of the first WHERE's top-level OR holds.
InLaterBranch(text, row) ==
    LET where == SelectInSeq(text, IsWhere)
    IN  where # 0 /\ \E k \in 2..Len(text[where].or) : InBranch(row, text[where].or[k])

=============================================================================
