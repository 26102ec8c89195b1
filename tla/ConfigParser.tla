---------------------------- MODULE ConfigParser ----------------------------
(***************************************************************************)
(* The configuration file: what ConfigParser::read makes of its lines.  A  *)
(* line is a sequence of symbols, and so are a key and a value.  Positions *)
(* count from 0, as in the code, and are size_t: npos + 1 is 0.            *)
(***************************************************************************)
EXTENDS Integers, Sequences

CONSTANT SizeRange   \* 2^w for the width w of size_t; more than any line has symbols

ASSUME SizeAssumption == SizeRange \in Nat /\ SizeRange >= 65536   \* the least the language allows

COMMENT_CHAR == "*"
CONFIG_KEY_SEPARATOR == "="

npos == SizeRange - 1

\* std::string::find and substr
find(line, symbol) ==
  IF \E k \in DOMAIN line : line[k] = symbol
  THEN CHOOSE k \in 0 .. Len(line) - 1 :
         line[k + 1] = symbol /\ \A j \in 1 .. k : line[j] # symbol
  ELSE npos
substr(line, from, count) ==
  SubSeq(line, from + 1, IF count < Len(line) - from THEN from + count ELSE Len(line))

Separator(line) == find(line, CONFIG_KEY_SEPARATOR)

\* A line without a separator is its own key, and its value lacks the last symbol.
Key(line) == substr(line, 0, Separator(line))

\* Mutant: the value begins at the separator.
ValueWithSeparator(line) == substr(line, Separator(line) % SizeRange, Len(line) - 1)

Value(line) == substr(line, (Separator(line) + 1) % SizeRange, Len(line) - 1)

IsComment(line) == line # <<>> /\ line[1] = COMMENT_CHAR
Counts(line) == line # <<>> /\ ~IsComment(line)

\* m_config[config_key] = config_value
Set(config, key, value) ==
  [k \in DOMAIN config \cup {key} |-> IF k = key THEN value ELSE config[k]]

NoConfig == [k \in {} |-> <<>>]

\* The loop over the lines.
read(lines) ==
  LET config[n \in 0 .. Len(lines)] ==
        IF n = 0 THEN NoConfig
        ELSE IF Counts(lines[n]) THEN Set(config[n - 1], Key(lines[n]), Value(lines[n]))
        ELSE config[n - 1]
  IN  config[Len(lines)]

\* The file that createConfigFileIfNotExists writes; the line after the frame of
\* stars is a space.
DefaultFile ==
  << <<>>, <<"*">>, <<"*", "SP", "*">>, <<"*">>, <<"SP">>,
     <<"HOST", "=", "localhost">>, <<"PORT", "=", "5432">>, <<"PASSWORD", "=", "root">>, <<>>, <<>> >>
=============================================================================
