SPECIFICATION Spec
CONSTANTS
  Emails = {ana, bia}
  Streets = {rua}
  Places = {casa, instituicao}
  Institution = instituicao
  Invalid = Invalid
  Visits = {1}
  Presses = {1, 2}
  Login = Login
  Nil = Nil
  MaxSwipes = 1
INVARIANTS SentUnderItsAccount
