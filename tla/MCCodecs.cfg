SPECIFICATION Spec
CHECK_DEADLOCK FALSE
INVARIANTS
  FieldsAreRead
  TextIsRead
  Utf8IsShortest
  FramableIsParsed
  LinesAreSeparate
  LinesEndWithCrLf
  MailIsUploaded
