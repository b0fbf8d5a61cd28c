------------------------------- MODULE Tokens -------------------------------
(***************************************************************************)
(* The tokens as the parser sees them (src/src/parser/token.hpp): a token  *)
(* is its spelling.  Names, numbers and strings are the spellings of       *)
(* identifiers and literals; every other token is a keyword, an operator   *)
(* or a delimiter and is its own type.                                     *)
(***************************************************************************)
EXTENDS Naturals, Sequences, SequencesExt

CONSTANTS
  Names,     \* identifiers
  Numbers,   \* number literals
  Strings    \* string literals

\* SVR_VOID, what the parser finds behind the last token.
Void == "SVR_VOID"

\* KEYWORD_MAP: the keywords some rule of the parser asks for; the others
\* (class, const, finally, ...) are keywords that no rule accepts.
ReturnTypes == {"void", "int", "float", "double", "decimal", "byte", "date",
                "bool", "char", "string"}
DeclaredTypes == ReturnTypes \cup {"auto"}
CastTypes == ReturnTypes \ {"void", "char"}
Keywords == DeclaredTypes \cup
  {"as", "if", "else", "for", "while", "do", "switch", "case", "default",
   "break", "continue", "return", "struct", "enum", "true", "false", "null",
   "try", "catch", "throw", "import", "export", "ffi", "class", "finally"}

\* OPERATOR_MAP, the delimiters.
Delimiters == {"[", "]", "(", ")", "{", "}", ";", ",", ":"}

\* The levels of TokenPrecedence, from 1; level 8 is empty.
Levels ==
  <<{","}, {"=", "+=", "-=", "*=", "/=", "%=", "&=", "|=", "^=", "<<=", ">>="},
    {":"}, {"?"}, {"||"}, {"&&"}, {"|"}, {}, {"&"}, {"==", "!="},
    {"<", "<=", ">", ">="}, {"<<", ">>", "as"}, {"+", "-"}, {"*", "/", "%"},
    {"**", "^"}, {"!", "~"}, {"++", "--"}, {".", "->", "[", "("}>>

LevelOf == [t \in UNION Range(Levels) |-> CHOOSE l \in DOMAIN Levels : t \in Levels[l]]

\* Values, the end of the text and what is no operator have none.
TokenPrecedence(t) == IF t \in DOMAIN LevelOf THEN LevelOf[t] ELSE 0

PrefixOperators == {"++", "--", "+", "-", "!", "~"}
Literals == Numbers \cup Strings \cup {"true", "false", "null"}

IsName(t)  == t \in Names
IsType(t)  == t \in DeclaredTypes \/ IsName(t)

\* The panic of the parser stops before these.
StatementStarts ==
  (DeclaredTypes \cup {"if", "while", "for", "do", "return", "break", "continue", "try",
                       "throw", "switch", "struct", "enum", "import", "export"})
=============================================================================
