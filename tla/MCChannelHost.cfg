SPECIFICATION Spec
CONSTANTS
  line = line
  telegram = telegram
  discord = discord
  chat = chat
  Line = {line}
  Telegram = {telegram}
  Discord = {discord}
  GoogleChat = {chat}
  Channels <- MCChannels
  Genuine = {e1, e2}
  Malformed = {broken}
  Forged = {forged}
  Ping = {ping}
  QueueMax = 1
  MaxInputs = 2
INVARIANTS
  GenuineIsKept
PROPERTIES
  LeavingEndsTheTasks
\* The application ends.
CHECK_DEADLOCK FALSE
