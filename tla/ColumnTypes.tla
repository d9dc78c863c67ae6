---------------------------- MODULE ColumnTypes ----------------------------
(***************************************************************************)
(* The types of columns, which of their conversions ModifyColumn.Unsafe    *)
(* calls destructive, and which ones are.                                  *)
(*                                                                         *)
(* A type is a record: `base` is its name, `args` what stands in           *)
(* parentheses behind it (sizes, or the values of an enum, numbered),      *)
(* `unsigned`, and `charset`, "" where there is none.  The code looks for  *)
(* the name at the beginning of the type; "timestamp" starts with "time".  *)
(***************************************************************************)
EXTENDS Integers, Sequences, SequencesExt

Ints == [tinyint |-> 1, smallint |-> 2, mediumint |-> 3, int |-> 4, bigint |-> 5]
Chars == {"char", "varchar"}
Fractional == {"decimal", "float", "double"}

\* Sizes in bytes.  The one of longtext and longblob is cut to what TLC has
\* numbers for; it is above all others.
TextSize == [tinytext |-> 255, text |-> 65535, mediumtext |-> 16777215, longtext |-> 2147483647]
BlobSize == [tinyblob |-> 255, blob |-> 65535, mediumblob |-> 16777215, longblob |-> 2147483647]

\* What information_schema can show.
IsType(t) ==
    /\ DOMAIN t = {"base", "args", "unsigned", "charset"}
    /\ t.args \in Seq(Nat) /\ t.unsigned \in BOOLEAN
    /\ t.base \in Chars \cup {"bit", "varbinary", "binary"} => Len(t.args) = 1
    /\ t.base \in {"time", "timestamp", "datetime"} => Len(t.args) \in {0, 1}
    /\ t.base = "decimal" => Len(t.args) = 2
    /\ t.base \in {"float", "double"} => Len(t.args) \in {0, 2}
    /\ t.charset # "" <=> t.base \in Chars \cup DOMAIN TextSize \cup {"enum", "set"}

-----------------------------------------------------------------------------
(* ModifyColumn.Unsafe *)

Rank(t) == IF t.base \in DOMAIN Ints THEN Ints[t.base] ELSE 0

IsStringType(t) == t.base \in Chars \cup DOMAIN TextSize
StringSize(t) == IF t.base \in Chars THEN t.args[1] ELSE TextSize[t.base]
IsVarBinType(t) == t.base \in {"varbinary"} \cup DOMAIN BlobSize
VarBinSize(t) == IF t.base = "varbinary" THEN t.args[1] ELSE BlobSize[t.base]

\* The types of MariaDB with a binary or textual equivalent.
Convenient(t, u) ==
    LET is(b, size) == u.base = b /\ u.args = <<size>>
    IN  \/ t.base = "inet6" /\ (is("binary", 16) \/ is("char", 39) \/ is("varchar", 39))
        \/ t.base = "inet4" /\ (is("binary", 4) \/ is("char", 15) \/ is("varchar", 15))
        \/ t.base = "uuid" /\ \/ is("binary", 16) \/ is("char", 32) \/ is("varchar", 32)
                              \/ is("char", 36) \/ is("varchar", 36)

\* Some size in parentheses is smaller than it was.
Shrinks(old, new) == \E n \in DOMAIN old.args : new.args[n] < old.args[n]

UnsafeConversion(old, new) ==
    LET both(bases) == old.base \in bases /\ new.base \in bases
    IN  IF old.charset # new.charset THEN TRUE
        ELSE IF old = new THEN FALSE
        ELSE IF ~old.unsigned /\ new.unsigned THEN TRUE
        ELSE IF both({"enum"}) \/ both({"set"}) THEN ~IsPrefix(old.args, new.args)
        ELSE IF both({"decimal"}) \/ both({"bit"}) THEN Shrinks(old, new)
        ELSE IF both({"time", "timestamp"}) \/ both({"datetime"})
          THEN old.args # <<>> /\ (new.args = <<>> \/ Shrinks(old, new))
        ELSE IF both({"float"}) \/ both({"double"}) \/ <<old.base, new.base>> = <<"float", "double">>
          THEN new.args # <<>> /\ (old.args = <<>> \/ Shrinks(old, new))
        ELSE IF Rank(old) > 0 /\ Rank(new) > 0
          THEN IF old.unsigned /\ ~new.unsigned THEN Rank(old) >= Rank(new)
                                                ELSE Rank(old) > Rank(new)
        ELSE IF IsStringType(old) /\ IsStringType(new) THEN StringSize(new) < StringSize(old)
        ELSE IF Convenient(old, new) \/ Convenient(new, old) THEN FALSE
        ELSE IF IsVarBinType(old) /\ IsVarBinType(new) THEN VarBinSize(new) < VarBinSize(old)
        ELSE TRUE

-----------------------------------------------------------------------------
(* What the conversions do to values: the reference *)

\* Bytes that a character may take.
Width(charset) == CASE charset = "utf8mb4" -> 4 [] charset \in {"utf8", "utf8mb3"} -> 3 [] OTHER -> 1

\* A char or varchar is limited in characters and a text in bytes, so that it
\* may have as many characters.
MostBytes(t) == IF t.base \in Chars THEN t.args[1] * Width(t.charset) ELSE TextSize[t.base]
MostChars(t) == IF t.base \in Chars THEN t.args[1] ELSE TextSize[t.base]

\* Digits before the point.
IntegerDigits(t) == t.args[1] - t.args[2]

\* Every number of type t is one of type u, as to its sign.
SignFits(t, u) == u.unsigned => t.unsigned

\* Every value of type t is a value of type u, trailing blanks aside.
ValuesFit(t, u) ==
    \/ t = u
    \/ /\ t.charset = u.charset
       /\ \/ /\ t.base \in {"enum", "set"} /\ u.base = t.base
             /\ ToSet(t.args) \subseteq ToSet(u.args)
          \/ /\ t.base \in Fractional /\ (u.base = t.base \/ <<t.base, u.base>> = <<"float", "double">>)
             /\ SignFits(t, u)
             /\ \/ u.args = <<>>
                \/ /\ t.args # <<>>
                   /\ t.args[2] <= u.args[2] /\ IntegerDigits(t) <= IntegerDigits(u)
          \/ t.base = "bit" /\ u.base = "bit" /\ t.args[1] <= u.args[1]
          \/ /\ t.base \in {"time", "timestamp", "datetime"} /\ u.base = t.base
             /\ t.args = <<>> \/ (u.args # <<>> /\ t.args[1] <= u.args[1])
          \/ /\ Rank(t) > 0 /\ Rank(u) > 0 /\ SignFits(t, u)
             /\ Rank(t) < Rank(u) \/ (Rank(t) = Rank(u) /\ t.unsigned = u.unsigned)
          \/ /\ IsStringType(t) /\ IsStringType(u)
             /\ MostBytes(t) <= MostBytes(u) /\ MostChars(t) <= MostChars(u)
          \/ IsVarBinType(t) /\ IsVarBinType(u) /\ VarBinSize(t) <= VarBinSize(u)
          \/ Convenient(t, u) \/ Convenient(u, t)

\* Conversions that ModifyColumn.Unsafe takes for safe and that are not: between
\* the two types whose names start with "time"; to more decimals with no more
\* digits, which leaves fewer before the point; and of a char or varchar to a text
\* with as many bytes as there were characters.
TakenForSafe(t, u) ==
    \/ {t.base, u.base} = {"time", "timestamp"}
    \/ /\ t.base \in Fractional /\ u.base \in Fractional /\ t.args # <<>> /\ u.args # <<>>
       /\ IntegerDigits(u) < IntegerDigits(t)
    \/ /\ t.base \in Chars /\ u.base \in DOMAIN TextSize
       /\ StringSize(t) <= StringSize(u) /\ MostBytes(u) < MostBytes(t)
=============================================================================
