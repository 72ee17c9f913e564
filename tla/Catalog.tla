------------------------------ MODULE Catalog ------------------------------
(***************************************************************************)
(* services/common/catalog.py: the tables a read-only service exposes,     *)
(* discovered from the database, and the checks that a request passes      *)
(* before it becomes SQL.  Used by the Dvm and the Api.                    *)
(*                                                                         *)
(* The value of a filter is "good" or "bad": a bytea column's must  *)
(* be hexadecimal, and PostgreSQL rejects the others with DataError.       *)
(***************************************************************************)
EXTENDS Integers, Sequences, FiniteSets

CONSTANTS
    Relations,   \* name -> [kind, columns (name -> type), unique (sequence of indexes)]
    Enabled,     \* tables with an enabled TableConfig
    Price,       \* table -> TableConfig.price
    MaxPageSize, \* max_page_size
    DefaultPage  \* default_page_size

\* The validator of ApiConfig and DvmConfig.
PageSizesAccepted == DefaultPage <= MaxPageSize

ASSUME CatalogAssumption ==
    /\ MaxPageSize \in Nat \ {0} /\ DefaultPage \in Nat \ {0} /\ PageSizesAccepted
    /\ Price \in [Enabled -> Nat]

None == "none"

-----------------------------------------------------------------------------

\* Tables, views and materialized views that have columns.
Discovered == {t \in DOMAIN Relations : DOMAIN Relations[t].columns # {}}

\* The primary key of a table, the first unique index of a materialized view.
KeyOf(t) ==
    IF Relations[t].kind = "view" \/ Relations[t].unique = <<>> THEN {}
    ELSE Head(Relations[t].unique)

\* Catalog.discover
Tables ==
    [t \in Discovered |-> [columns |-> Relations[t].columns, primary_key |-> KeyOf(t),
                           is_view |-> Relations[t].kind # "table"]]

\* CatalogAccessMixin._is_table_enabled, and the Dvm's override.
IsTableEnabled(t) == t \in Enabled /\ t \in DOMAIN Tables

IsHex(t, col) == Tables[t].columns[col] = "bytea"

\* _parse_filter: the operator is the longest one the value starts with, "="
\* otherwise (`raw' is the pair of its prefix and the rest).
ParseFilter(raw) == IF raw[1] = None THEN <<"=", raw[2]>> ELSE raw

\* _parse_sort: "column", or "column:direction".
ParseSort(sort) ==
    IF sort[2] = None THEN <<sort[1], "ASC">>
    ELSE IF sort[2] \in {"ASC", "DESC"} THEN sort ELSE None

\* Catalog.query raises CatalogError before its statements.
QueryRejected(t, filters, sort) ==
    \/ t \notin DOMAIN Tables
    \/ \E c \in DOMAIN filters :
          \/ c \notin DOMAIN Tables[t].columns
          \/ IsHex(t, c) /\ ParseFilter(filters[c])[2] = "bad"
    \/ /\ sort # None
       /\ ParseSort(sort) = None \/ ParseSort(sort)[1] \notin DOMAIN Tables[t].columns

\* The statements: DataError becomes CatalogError("Invalid filter value").
DataError(t, filters) ==
    \E c \in DOMAIN filters : ~IsHex(t, c) /\ ParseFilter(filters[c])[2] = "bad"
=============================================================================
