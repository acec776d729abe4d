------------------------------ MODULE SqlBuilder ------------------------------
(***************************************************************************)
(* The builders of SELECT, UPDATE and INSERT statements (src/sqlquery).    *)
(*                                                                         *)
(* A statement is text with "?" placeholders, its arguments a list of its  *)
(* own: the database gives the k-th argument to the k-th "?".  The calls   *)
(* of a chain add to the arguments as they are made; the text is put       *)
(* together when Build is called.  A placeholder is modelled as the        *)
(* argument it stands for, table and column names are left out.            *)
(*                                                                         *)
(* The client chains its calls in the order their types allow and puts And *)
(* or Or between two conditions, as the gateways do.  It may go on with a  *)
(* chain it has built, and use what it built in EXISTS.                    *)
(***************************************************************************)
EXTENDS Naturals, Sequences, FiniteSets, SequencesExt

CONSTANTS
  MaxColumns,     \* bound on the columns of a statement
  MaxArgs,        \* bound on the arguments of one call
  MaxConditions,  \* bound on the conditions of a clause
  MaxBuilders     \* bound on the chains

ASSUME BuilderAssumption ==
  {MaxColumns, MaxArgs, MaxConditions, MaxBuilders} \subseteq Nat

VARIABLES
  number,   \* how many chains were begun
  kind,     \* DMLType
  columns,  \* how many columns the statement names
  chain,    \* what the chain's last call returned
  args,     \* the builder's arguments
  nodes,    \* the ConditionNodes from head to node
  query,    \* query of the ConditionClause
  built,    \* what Build returned last: [query, args]
  select    \* what it returned last in an earlier chain

builderVars == <<number, kind, columns, chain, args, nodes, query, built, select>>

Kinds == {"SELECT", "UPDATE", "INSERT INTO"}
Conditions == {"=", "IN", "IS", "EXISTS"}
Joints == {"AND", "OR"}
Unjoined == ""

Nothing == [query |-> <<>>, args |-> <<>>]

\* The i-th argument of the call with this place in its chain, 0 for Args.  The
\* argument of Is is a piece of SQL.
Argument(place, i, sql) == [chain |-> number, place |-> place, i |-> i, sql |-> sql]
Arguments(place, n) == [i \in 1 .. n |-> Argument(place, i, FALSE)]

\* A part of a statement and its placeholders.
Piece(word, slots) == [word |-> word, slots |-> slots]

Slots(pieces) == FlattenSeq([i \in DOMAIN pieces |-> pieces[i].slots])

BuilderInit ==
  /\ number = 0
  /\ kind = "SELECT"
  /\ columns = 0
  /\ chain = "none"
  /\ args = <<>>
  /\ nodes = <<>>
  /\ query = <<>>
  /\ built = Nothing
  /\ select = Nothing
-----------------------------------------------------------------------------
(* The chain up to its conditions *)

\* Select, Update, InsertInto.  The client may keep the SELECT it has built.
Begin(k, n) ==
  /\ number < MaxBuilders
  /\ number' = number + 1
  /\ kind' = k
  /\ columns' = n
  /\ chain' = IF k = "SELECT" THEN "builder" ELSE "args"
  /\ args' = <<>> /\ nodes' = <<>> /\ query' = <<>> /\ built' = Nothing
  /\ select' \in {Nothing} \cup (IF kind = "SELECT" THEN {built} ELSE {})

\* Builder.Write
Write(more) == args' = args \o more

Args(n) ==
  /\ chain = "args"
  /\ chain' = "builder"
  /\ Write(Arguments(0, n))
  /\ UNCHANGED <<number, kind, columns, nodes, query, built, select>>

Where ==
  /\ chain = "builder" /\ kind # "INSERT INTO"
  /\ chain' = "clause"
  /\ UNCHANGED <<number, kind, columns, args, nodes, query, built, select>>
-----------------------------------------------------------------------------
(* Conditions *)

\* addNewNode
AddNewNode(column, operator, more) ==
  /\ chain = "clause" /\ Len(nodes) < MaxConditions
  /\ nodes # <<>> => Last(nodes).joint # Unjoined
  /\ nodes' = Append(nodes, [column |-> column, operator |-> operator,
                             args |-> more, joint |-> Unjoined])
  /\ Write(more)
  /\ UNCHANGED <<number, kind, columns, chain, query, built, select>>

Place == Len(nodes) + 1

Equal == AddNewNode(<<>>, "=", Arguments(Place, 1))
In(n) == AddNewNode(<<>>, "IN", Arguments(Place, n))
Is == AddNewNode(<<>>, "IS", <<Argument(Place, 1, TRUE)>>)

\* The text and the arguments of a SELECT that was built before.
Exists ==
  /\ select # Nothing
  /\ AddNewNode(Slots(select.query), "EXISTS", select.args)

\* And, Or: nothing to join yet, or the last one called.
Join(joint) ==
  /\ chain = "clause"
  /\ IF nodes = <<>> THEN UNCHANGED nodes
                     ELSE nodes' = [nodes EXCEPT ![Len(nodes)].joint = joint]
  /\ UNCHANGED <<number, kind, columns, chain, args, query, built, select>>
-----------------------------------------------------------------------------
(* Build *)

\* buildQuery of a node: the column of EXISTS is the subquery, with its placeholders.
NodeQuery(node) ==
  Piece(node.operator,
        CASE node.operator = "EXISTS" -> node.column
          [] node.operator = "IS"     -> <<>>
          [] OTHER                    -> node.args)

\* Mutant: what stands in the node is written, set or not.
JoinAlways(i) == i \in DOMAIN nodes

\* Mutant: the operator after the last condition is written too.
JoinTrailing(i) == nodes[i].joint # Unjoined

\* A node's operator is written when another node follows.
Joined(i) == i < Len(nodes) /\ nodes[i].joint # Unjoined

\* buildConditionString
ConditionString ==
  FlattenSeq([i \in DOMAIN nodes |->
    <<NodeQuery(nodes[i])>> \o IF Joined(i) THEN <<Piece(nodes[i].joint, <<>>)>> ELSE <<>>])

\* len(s.args) / len(s.columns), and BuildPlaceholder repeats at least once.
Rows == LET n == Len(args) \div columns IN IF n < 1 THEN 1 ELSE n

\* Mutant: rows are not counted.
OneRow == Piece(kind, IF kind = "SELECT" THEN <<>> ELSE Arguments(0, columns))

\* The statement up to its condition.
MainQuery ==
  Piece(kind, CASE kind = "SELECT"      -> <<>>
                [] kind = "UPDATE"      -> Arguments(0, columns)
                [] kind = "INSERT INTO" -> Arguments(0, columns * Rows))

\* InsertZeroColumnsErr, InsertInvalidArgCountErr
Refused == kind = "INSERT INTO" /\ (columns = 0 \/ Len(args) % columns # 0)

\* Build of the builder: without a clause, or from Build of the clause.
Returns(clause) ==
  built' = IF Refused THEN Nothing ELSE [query |-> <<MainQuery>> \o clause, args |-> args]

BuildPlain ==
  /\ chain = "builder"
  /\ Returns(<<>>)
  /\ UNCHANGED <<number, kind, columns, chain, args, nodes, query, select>>

BuildClause ==
  /\ chain = "clause" /\ nodes # <<>>
  /\ query' = <<Piece("WHERE", <<>>)>> \o ConditionString
  /\ Returns(query')
  /\ UNCHANGED <<number, kind, columns, chain, args, nodes, select>>
-----------------------------------------------------------------------------
BuilderNext ==
  \/ \E k \in Kinds, n \in 0 .. MaxColumns : Begin(k, n)
  \/ \E n \in 0 .. MaxArgs : Args(n) \/ In(n)
  \/ Where \/ Equal \/ Is \/ Exists
  \/ \E joint \in Joints : Join(joint)
  \/ BuildPlain \/ BuildClause

BuilderSpec == BuilderInit /\ [][BuilderNext]_builderVars
-----------------------------------------------------------------------------
(* Properties *)

\* The clause has no query but its own conditions', in the words of the model.
BuilderTypeOK ==
  /\ number \in 0 .. MaxBuilders
  /\ kind \in Kinds /\ columns \in 0 .. MaxColumns
  /\ chain \in {"none", "args", "builder", "clause"}
  /\ \A i \in DOMAIN nodes :
       nodes[i].operator \in Conditions /\ nodes[i].joint \in Joints \cup {Unjoined}
  /\ \A i \in DOMAIN built.query :
       built.query[i].word \in Kinds \cup Conditions \cup Joints \cup {"WHERE"}

\* The number of values the chain's client gave to Args.
Given == Cardinality({k \in DOMAIN built.args :
                        built.args[k].chain = number /\ built.args[k].place = 0})

\* A value for each column of an UPDATE, a row for an INSERT.
Filled ==
  CASE kind = "SELECT"      -> TRUE
    [] kind = "UPDATE"      -> Given = columns
    [] kind = "INSERT INTO" -> Given > 0

\* The values among the arguments: all but the texts given to Is.
Values(s) == FlattenSeq([k \in DOMAIN s |-> IF s[k].sql THEN <<>> ELSE <<s[k]>>])

\* Every value gets to the column it was given for: through lists, the rows of an
\* INSERT, a subquery in its turn and chains built more than once, the k-th "?" of a
\* statement stands for the k-th of its arguments.  The text given to Is, which has no
\* placeholder, is in the arguments all the same and has to be left out here.
ArgumentsInPlace ==
  (built # Nothing /\ Filled) =>
    Values(built.args) = Slots(built.query)

\* Between two conditions of a clause there is exactly one AND or OR and none at its
\* ends, even where the chain has some too many.
ConditionsJoined ==
  LET q == built.query IN
  Len(q) > 1 =>
    /\ q[2].word = "WHERE" /\ Len(q) % 2 = 1
    /\ \A i \in 3 .. Len(q) : q[i].word \in (IF i % 2 = 1 THEN Conditions ELSE Joints)
=============================================================================
