-------------------------- MODULE TelegramHandler --------------------------
(***************************************************************************)
(* TelegramHandler.HandleTermination: check the event, put its fields into *)
(* a MarkdownV2 message, send it with the handler's context.  A text is a  *)
(* sequence of characters, since escaping goes character by character; the *)
(* fixed words of the message are left out.                                *)
(***************************************************************************)
EXTENDS Naturals, Sequences

VARIABLES
  telegram,  \* the handler: sending, or the error it returned
  posted     \* the messages the chat shows, field by field

MessageFields == {"Hostname", "InstanceID", "PrivateIP", "Reason"}

TelegramInit ==
  /\ telegram = "send"
  /\ posted = {}

Backslash == "backslash"

\* The characters with a meaning in MarkdownV2, the backslash apart.
SpecialChars == <<"_", "*", "[", "]", "(", ")", "~", "backquote", ">", "#", "+", "-", "=",
                  "|", "{", "}", ".", "!">>
Markup == {SpecialChars[k] : k \in DOMAIN SpecialChars}

\* strings.ReplaceAll(text, char, backslash + char), character by character.
EscapeAll(text, char) ==
  LET upTo[i \in 0..Len(text)] ==
        IF i = 0 THEN <<>>
        ELSE upTo[i-1] \o (IF text[i] = char THEN <<Backslash, char>> ELSE <<text[i]>>)
  IN  upTo[Len(text)]

\* One pass over the text for each of the characters.
EscapeEach(text, chars) ==
  LET result[k \in 0..Len(chars)] ==
        IF k = 0 THEN text ELSE EscapeAll(result[k-1], chars[k])
  IN  result[Len(chars)]

\* Seeded fault: the backslash is escaped last, and those added before with it.
escapeMarkdownLast(text) == EscapeAll(EscapeEach(text, SpecialChars), Backslash)

escapeMarkdown(text) == EscapeEach(EscapeAll(text, Backslash), SpecialChars)

validateTerminationEvent(event) ==
  \A f \in {"Hostname", "InstanceID", "Reason"} : event[f] # <<>>

\* An event that is not valid is never sent.  Otherwise the call fails or not,
\* delivered or not: an answer can be lost.
SendMessage(event) ==
  /\ telegram = "send"
  /\ \/ telegram' = "error" /\ UNCHANGED posted
     \/ /\ validateTerminationEvent(event)
        /\ telegram' \in {"ok", "error"}
        /\ posted' = posted \cup {[f \in MessageFields |-> escapeMarkdown(event[f])]}
-----------------------------------------------------------------------------
\* Telegram's reading of MarkdownV2: after a backslash a character stands for
\* itself; else a special character is markup, not text.
Read(seen, char) ==
  IF seen.escaped THEN [shown |-> Append(seen.shown, char), escaped |-> FALSE]
  ELSE IF char = Backslash THEN [seen EXCEPT !.escaped = TRUE]
  ELSE [seen EXCEPT !.shown = Append(@, IF char \in Markup THEN "markup" ELSE char)]

Rendered(text) ==
  LET seen[i \in 0..Len(text)] ==
        IF i = 0 THEN [shown |-> <<>>, escaped |-> FALSE] ELSE Read(seen[i-1], text[i])
      end == seen[Len(text)]
  IN  IF end.escaped THEN Append(end.shown, "markup") ELSE end.shown

=============================================================================
